---- MODULE Spec2Model ----
(***************************************************************************)
(* Content cache with relevance search of the Fernando Belotto assistant   *)
(* (src/ai/fernando-belotto/functions/contentCache.ts and its callers).    *)
(*                                                                         *)
(* Text is a sequence of one-character strings, so that toLowerCase,       *)
(* includes and split are computed and not assumed.                        *)
(***************************************************************************)
EXTENDS Integers, Sequences, FiniteSets, TLC

(***************************************************************************)
(* Bounds of the model.                                                    *)
(***************************************************************************)
\* milliseconds the clock advances in one Tick
TickMs == 1800000
\* number of Ticks the clock may take
MaxTicks == 2
\* longest query drawn in SearchSpec
MaxQueryLen == 6
\* most items a cached section holds in SearchSpec
MaxItems == 2

(***************************************************************************)
(* Text helpers: String.prototype.toLowerCase / includes / split(/\s+/).   *)
(***************************************************************************)
UpperChars ==
  <<"A", "B", "C", "D", "E", "F", "G", "H", "I", "J", "K", "L", "M", "N", "O",
    "P", "Q", "R", "S", "T", "U", "V", "W", "X", "Y", "Z",
    "Á", "À", "Â", "Ã", "É", "Ê", "Í", "Ó", "Ô", "Õ", "Ú", "Ç">>

LowerChars ==
  <<"a", "b", "c", "d", "e", "f", "g", "h", "i", "j", "k", "l", "m", "n", "o",
    "p", "q", "r", "s", "t", "u", "v", "w", "x", "y", "z",
    "á", "à", "â", "ã", "é", "ê", "í", "ó", "ô", "õ", "ú", "ç">>

\* the lower-case form of each upper-case letter
LowerMap ==
  [c \in {UpperChars[k] : k \in 1..Len(UpperChars)} |->
     LowerChars[CHOOSE k \in 1..Len(UpperChars) : UpperChars[k] = c]]

LowerChar(c) == IF c \in DOMAIN LowerMap THEN LowerMap[c] ELSE c

toLowerCase(s) == [i \in 1..Len(s) |-> LowerChar(s[i])]

includes(hay, needle) ==
  \E i \in 0..(Len(hay) - Len(needle)) :
     SubSeq(hay, i + 1, i + Len(needle)) = needle

\* \s
WhiteSpace == {" ", "\t", "\n", "\r"}

IsSpace(c) == c \in WhiteSpace

\* first index >= i of s that holds no white space (Len(s)+1 when none)
RECURSIVE SkipSpace(_, _)
SkipSpace(s, i) ==
  IF i > Len(s) \/ ~IsSpace(s[i]) THEN i ELSE SkipSpace(s, i + 1)

\* s.split(/\s+/) continued at index i with the token cur under construction:
\* a run of white space ends the token, also an empty one at either end
RECURSIVE SplitFrom(_, _, _)
SplitFrom(s, i, cur) ==
  IF i > Len(s) THEN <<cur>>
  ELSE IF IsSpace(s[i]) THEN <<cur>> \o SplitFrom(s, SkipSpace(s, i), <<>>)
  ELSE SplitFrom(s, i + 1, Append(cur, s[i]))

split(s) == SplitFrom(s, 1, <<>>)

\* the length a token must exceed to be a keyword
KeywordMinLen == 3

IsKeyword_ge(word) == Len(word) >= KeywordMinLen

IsKeyword(word) == Len(word) > KeywordMinLen

\* queryLower.split(/\s+/).filter((word) => word.length > 3)
keywordsOf(queryLower) == SelectSeq(split(queryLower), IsKeyword)

(***************************************************************************)
(* The scan of searchInCache over one item.                                *)
(***************************************************************************)
\* title, description or some category contains the lower-cased text
FieldMatch(item, text) ==
  \/ includes(toLowerCase(item.title), text)
  \/ includes(toLowerCase(item.description), text)
  \/ \E k \in 1..Len(item.category) :
        includes(toLowerCase(item.category[k]), text)

exactMatch_noCategory(item, queryLower) ==
  \/ includes(toLowerCase(item.title), queryLower)
  \/ includes(toLowerCase(item.description), queryLower)

exactMatch(item, queryLower) == FieldMatch(item, queryLower)

hasKeywordMatch(item, keywords) ==
  \E k \in 1..Len(keywords) : FieldMatch(item, keywords[k])

\* whether the keyword branch is entered for an item that is no exact match
KeywordBranch(keywords) == Len(keywords) > 0

itemRelevance_keywordFirst(item, queryLower, keywords) ==
  IF KeywordBranch(keywords) /\ hasKeywordMatch(item, keywords) THEN "medium"
  ELSE IF exactMatch(item, queryLower) THEN "high"
  ELSE "none"

\* the relevance the loop body gives an item, "none" when it pushes nothing
itemRelevance(item, queryLower, keywords) ==
  IF exactMatch(item, queryLower) THEN "high"
  ELSE IF KeywordBranch(keywords) /\ hasKeywordMatch(item, keywords)
       THEN "medium"
       ELSE "none"

FormattedResult(item, relevance) ==
  [title |-> item.title, url |-> item.link,
   relevance |-> relevance, date |-> item.pubDate]

\* the results array after the for loop, in the items' iteration order
RECURSIVE scanItems(_, _, _)
scanItems(items, queryLower, keywords) ==
  IF items = <<>> THEN <<>>
  ELSE LET rel == itemRelevance(Head(items), queryLower, keywords)
           rest == scanItems(Tail(items), queryLower, keywords)
       IN IF rel = "none" THEN rest
          ELSE <<FormattedResult(Head(items), rel)>> \o rest

\* the comparator handed to results.sort
compareRelevance(a, b) ==
  IF a.relevance = "high" /\ b.relevance # "high" THEN -1
  ELSE IF a.relevance # "high" /\ b.relevance = "high" THEN 1
  ELSE 0

\* x put into the sorted sequence before the first element it must precede
RECURSIVE InsertSorted(_, _)
InsertSorted(sorted, x) ==
  IF sorted = <<>> THEN <<x>>
  ELSE IF compareRelevance(x, Head(sorted)) < 0 THEN <<x>> \o sorted
  ELSE <<Head(sorted)>> \o InsertSorted(Tail(sorted), x)

\* Array.prototype.sort is stable: equal elements keep their order
RECURSIVE StableSort(_, _)
StableSort(done, todo) ==
  IF todo = <<>> THEN done
  ELSE StableSort(InsertSorted(done, Head(todo)), Tail(todo))

sortByRelevance_none(results) == results

sortByRelevance(results) == StableSort(<<>>, results)

\* lines 104-166 of searchInCache: what is returned for the items scanned
searchItems(items, query) ==
  LET queryLower == toLowerCase(query)
      keywords == keywordsOf(queryLower)
  IN sortByRelevance(scanItems(items, queryLower, keywords))

(***************************************************************************)
(* The feed search of documentation-helpers.ts, which the cache replaces:  *)
(* the results it derives from the feed items, before any page scraping.   *)
(***************************************************************************)
legacyPartialMatch(item, keywords) ==
  \E k \in 1..Len(keywords) :
     \/ includes(toLowerCase(item.title), keywords[k])
     \/ includes(toLowerCase(item.description), keywords[k])

\* the items at the places `keep`, formatted in the order of the feed
RECURSIVE legacyFormat(_, _, _)
legacyFormat(items, keep, relevance) ==
  IF items = <<>> THEN <<>>
  ELSE (IF 1 \in keep THEN <<FormattedResult(Head(items), relevance)>>
        ELSE <<>>)
       \o legacyFormat(Tail(items), {k - 1 : k \in keep \ {1}}, relevance)

legacyRssResults(feedItems, query) ==
  LET queryLower == toLowerCase(query)
      keywords == keywordsOf(queryLower)
      relevantItems ==
        {i \in 1..Len(feedItems) : exactMatch(feedItems[i], queryLower)}
      partialMatches ==
        {i \in 1..Len(feedItems) : legacyPartialMatch(feedItems[i], keywords)}
  IN IF Len(feedItems) > 0 /\ relevantItems = {} /\ Len(keywords) > 0
     THEN legacyFormat(feedItems, partialMatches, "medium")
     ELSE legacyFormat(feedItems, relevantItems, "high")

(***************************************************************************)
(* Configuration and the Feed Source.                                      *)
(***************************************************************************)
\* the sections a caller may name; only blog and news have a feed
Sections == {"blog", "news", "tools"}

rssFeedURLs ==
  [s \in {"blog", "news"} |->
     IF s = "blog" THEN "https://fernandobelotto.com/api/rss/blog/pt-BR"
                   ELSE "https://fernandobelotto.com/api/rss/news/pt-BR"]

HasFeedUrl_always(s) == TRUE

HasFeedUrl(s) == s \in DOMAIN rssFeedURLs

\* 30 minutes in milliseconds
CACHE_EXPIRATION == 30 * 60 * 1000

\* the clock is read long after the epoch, the lastUpdate of a new cache
StartNow == CACHE_EXPIRATION + TickMs

MaxNow == StartNow + MaxTicks * TickMs

RSSItem(guid, title, description, category, link) ==
  [guid |-> guid, title |-> title, description |-> description,
   category |-> category, link |-> link, pubDate |-> "d"]

\* a field the XML parser returned as a number (a title of digits only):
\* fetchRSSFeed passes it on as it is
NumberValue == <<"#number">>

\* item.title.toLowerCase() and item.description.toLowerCase() throw a
\* TypeError on a value that is no string
scanThrows(items) ==
  \E i \in 1..Len(items) :
     items[i].title = NumberValue \/ items[i].description = NumberValue

\* feed items as fetchRSSFeed returns them: guid is "" when the feed has none
ItemA  == RSSItem("g1", <<"a","a","a","a"," ","B">>, <<"a","b">>, <<>>, "l1")
ItemB  == RSSItem("g2", <<"a","a","a","a">>, <<"b","b">>,
                  << <<"A","b"," ","a">> >>, "l2")
ItemA2 == RSSItem("g1", <<"b","b","b","b">>, <<>>, <<>>, "l3")
ItemN  == RSSItem("", <<"a","b">>, <<"a">>, <<>>, "l4")

\* the feeds the Feed Source may answer with
Feeds == { <<ItemN>>, <<ItemB, ItemN>>, <<ItemA, ItemB, ItemA2>> }

\* the answers drawn for the feed of section s
FeedsOf(s) == IF s = "news" THEN { <<ItemB, ItemN>> } ELSE Feeds

\* the sections the callers of Spec search
SearchSections == {"blog", "tools"}

\* the queries of the callers of Spec
Queries == { <<>>, <<"a","a","a","a"," ","b">> }

(***************************************************************************)
(* The cache of one section and the steps of updateCache.                  *)
(***************************************************************************)
initializeCache == [items |-> <<>>, lastUpdate |-> 0, isUpdating |-> FALSE]

needsUpdate_never(cache, t) == FALSE

needsUpdate_ge(cache, t) == t - cache.lastUpdate >= CACHE_EXPIRATION

needsUpdate(cache, t) == t - cache.lastUpdate > CACHE_EXPIRATION

updateCacheSkips_never(cache) == FALSE

\* the guard against simultaneous updates
updateCacheSkips(cache) == cache.isUpdating

earlyReturn_releases(cache) == [cache EXCEPT !.isUpdating = FALSE]

\* the return of the guard stands before the try block: the finally block
\* does not run for it
earlyReturn(cache) == cache

beforeFetch_clears(cache) ==
  [cache EXCEPT !.isUpdating = TRUE, !.items = <<>>]

\* the flag is set before the feed URL is looked up and the fetch awaited
beforeFetch(cache) == [cache EXCEPT !.isUpdating = TRUE]

releaseFlag_keeps(cache) == cache

\* the finally block
releaseFlag(cache) == [cache EXCEPT !.isUpdating = FALSE]

cacheClear_keeps(items) == items

\* cache.items.clear()
cacheClear(items) == <<>>

\* a set that leaves the value of a known key as it is
mapSet_first(items, item) ==
  IF \E i \in 1..Len(items) : items[i].guid = item.guid THEN items
  ELSE Append(items, item)

\* Map.prototype.set: a known key keeps its place and takes the new value,
\* a new key goes last
mapSet(items, item) ==
  IF \E i \in 1..Len(items) : items[i].guid = item.guid
  THEN [i \in 1..Len(items) |->
          IF items[i].guid = item.guid THEN item ELSE items[i]]
  ELSE Append(items, item)

hasGuid_always(item) == TRUE

\* if (item.guid), on the guid fetchRSSFeed gives an item: "" when the feed
\* gave the item none
hasGuid(item) == item.guid # ""

\* feed.items.forEach: only an item with a guid is stored
RECURSIVE setEach(_, _)
setEach(items, feedItems) ==
  IF feedItems = <<>> THEN items
  ELSE setEach(IF hasGuid(Head(feedItems)) THEN mapSet(items, Head(feedItems))
               ELSE items,
               Tail(feedItems))

\* whether the catch block of updateCache keeps the error of fetchRSSFeed
\* from the caller
updateCacheCatches_rethrows == FALSE

updateCacheCatches == TRUE

storeFeed_cleared(cache, feed, t) ==
  [cache EXCEPT !.items = cacheClear(cache.items), !.lastUpdate = t]

\* the statements after a fetch that returned: clear, repopulate, lastUpdate
storeFeed(cache, feed, t) ==
  [cache EXCEPT !.items = setEach(cacheClear(cache.items), feed),
                !.lastUpdate = t]

\* one cache record that every section would share
storeIn_all(caches, s, cache) == [x \in DOMAIN caches |-> cache]

\* updateCache assigns to the record initializeCache(section) returned,
\* which is sectionCaches[section]
storeIn(caches, s, cache) == [caches EXCEPT ![s] = cache]

\* updateCache up to its first suspension or its return:
\* the cache it leaves and whether fetchRSSFeed was called
beginUpdate(cache, s) ==
  IF updateCacheSkips(cache) THEN [cache |-> earlyReturn(cache), fetch |-> FALSE]
  ELSE IF ~HasFeedUrl(s)
       THEN [cache |-> releaseFlag(beforeFetch(cache)), fetch |-> FALSE]
       ELSE [cache |-> beforeFetch(cache), fetch |-> TRUE]

(***************************************************************************)
(* State.                                                                  *)
(***************************************************************************)
\* the concurrent calls of searchInCache
Searchers == {"s1"}
\* the calls of preloadCaches made when searchSite.ts and the chat route load
Preloaders == {"p1", "p2"}
Tasks == Searchers \cup Preloaders

VARIABLES
  sectionCaches, \* section -> [items, lastUpdate, isUpdating]
  now,           \* what new Date().getTime() returns
  pc,            \* task -> where the call stands
  sec,           \* searcher -> the section argument of its call
  query,         \* searcher -> the query argument of its call
  results,       \* searcher -> what its call returned
  nfetch,        \* searcher -> fetchRSSFeed calls its current call has made
  nskip,         \* searcher -> updateCache calls of its current call that
                 \* returned at the guard against simultaneous updates
  fetching,      \* <<task, section>>: fetchRSSFeed calls not yet settled
  hist,          \* section -> how its latest update went (history)
  nfail,         \* searcher -> fetchRSSFeed calls of its current call that
                 \* threw
  params,        \* searcher -> the argument of searchFernandoBelottoSite
  response,      \* searcher -> how its searchFernandoBelottoSite call settled
  buffer,        \* the buffer of the JsonPatternDetector of the open stream
  feds,          \* the chunks the open stream has been fed (history)
  outs,          \* the chunks the open stream has enqueued (history)
  errored,       \* whether the open stream is in the errored state
  faulted,       \* the chunk on which transform threw, if any (history)
  messages,      \* the argument of the latest applySecurityMiddleware call
  secured,       \* what the latest applySecurityMiddleware call returned
  passes,        \* the calls of applySecurityMiddleware made in a row, each
                 \* with what the one before returned
  limited,       \* the latest limitResponseLength call and what it returned
  buffers,       \* detector -> its buffer, for the streams open side by side
  fedTo,         \* stream -> the chunks it has been fed (history)
  outOf,         \* stream -> the chunks it has enqueued (history)
  deduped        \* the latest removeDuplicateContent call and what it returned

vars ==
  <<sectionCaches, now, pc, sec, query, results, nfetch, nskip, fetching,
    hist, nfail, params, response, buffer, feds, outs, errored, faulted,
    messages, secured, passes, limited, buffers, fedTo, outOf,
    deduped>>

\* what the cache and its callers assign
cacheVars ==
  <<sectionCaches, now, pc, sec, query, results, nfetch, nskip, fetching,
    hist, nfail, params, response>>

\* what the transform stream of the security middleware assigns
streamVars == <<buffer, feds, outs, errored, faulted>>

\* what the calls of the functions for whole messages assign
postVars == <<messages, secured, passes, limited>>

\* what the transform streams open side by side assign
pairVars == <<buffers, fedTo, outOf>>

\* what the calls of removeDuplicateContent alone assign
dedupVars == <<deduped>>

\* what the security middleware assigns
textVars == <<streamVars, postVars, pairVars, dedupVars>>

\* the transform streams open side by side, as for two requests
Streams == {"a", "b"}

\* no removeDuplicateContent call yet
NoDedup == [message |-> <<>>, result |-> <<>>]

\* no limitResponseLength call yet
NoLimit == [message |-> <<>>, maxChars |-> 0, result |-> <<>>]

\* what only searchFernandoBelottoSite assigns
siteVars == <<params, response>>

\* no call of searchFernandoBelottoSite made or settled
NoParams == [section |-> "", query |-> <<>>]
NoResponse ==
  [status |-> "pending", section |-> "", query |-> <<>>, results |-> <<>>,
   message |-> <<>>]

\* outcome: none, running, success, failure or nourl; before: the cache as
\* the running update found it; feed: the feed a successful update stored;
\* dropped: whether that update removed an item the feed no longer has
NoUpdate ==
  [outcome |-> "none", before |-> initializeCache, feed |-> <<>>,
   dropped |-> FALSE]

Init ==
  /\ sectionCaches = [s \in Sections |-> initializeCache]
  /\ now = StartNow
  /\ pc = [t \in Tasks |-> "idle"]
  /\ sec = [t \in Searchers |-> "blog"]
  /\ query = [t \in Searchers |-> <<>>]
  /\ results = [t \in Searchers |-> <<>>]
  /\ nfetch = [t \in Searchers |-> 0]
  /\ nskip = [t \in Searchers |-> 0]
  /\ fetching = {}
  /\ hist = [s \in Sections |-> NoUpdate]
  /\ nfail = [t \in Searchers |-> 0]
  /\ params = [t \in Searchers |-> NoParams]
  /\ response = [t \in Searchers |-> NoResponse]
  /\ buffer = <<>>
  /\ feds = <<>>
  /\ outs = <<>>
  /\ errored = FALSE
  /\ faulted = <<>>
  /\ messages = <<>>
  /\ secured = <<>>
  /\ passes = 0
  /\ limited = NoLimit
  /\ buffers = [d \in Streams |-> <<>>]
  /\ fedTo = [k \in Streams |-> <<>>]
  /\ outOf = [k \in Streams |-> <<>>]
  /\ deduped = NoDedup

\* the history entry a call of updateCache on section s leaves
histAfterBegin(s) ==
  LET cache == sectionCaches[s]
      b == beginUpdate(cache, s)
  IN IF b.fetch
       THEN [NoUpdate EXCEPT !.outcome = "running", !.before = cache]
     ELSE IF updateCacheSkips(cache)
       THEN hist[s]
     ELSE [NoUpdate EXCEPT !.outcome = "nourl"]

(***************************************************************************)
(* searchInCache.                                                          *)
(***************************************************************************)
\* lines 104-166: the scan of the items the section holds now; the scan
\* throws at the first item whose title or description is no string
Scan(t, s, q) ==
  /\ results' =
       [results EXCEPT
          ![t] = IF scanThrows(sectionCaches[s].items) THEN <<>>
                 ELSE searchItems(sectionCaches[s].items, q)]
  /\ pc' = [pc EXCEPT
              ![t] = IF scanThrows(sectionCaches[s].items) THEN "threw"
                     ELSE "done"]
  /\ UNCHANGED <<sectionCaches, fetching, hist, nfetch, nskip>>

\* await updateCache(section) called by searcher t; a call that started a
\* fetch leaves the searcher at `waiting`, one that returned at `returned`
CallUpdate(t, s, waiting, returned) ==
  LET b == beginUpdate(sectionCaches[s], s)
  IN /\ sectionCaches' = storeIn(sectionCaches, s, b.cache)
     /\ hist' = [hist EXCEPT ![s] = histAfterBegin(s)]
     /\ fetching' = IF b.fetch THEN fetching \cup {<<t, s>>} ELSE fetching
     /\ nfetch' = [nfetch EXCEPT ![t] = IF b.fetch THEN @ + 1 ELSE @]
     /\ nskip' = [nskip EXCEPT
                    ![t] = IF updateCacheSkips(sectionCaches[s]) THEN @ + 1
                           ELSE @]
     /\ pc' = [pc EXCEPT ![t] = IF b.fetch THEN waiting ELSE returned]
     /\ UNCHANGED results

\* lines 99-102 and, with no suspension between, the scan
CheckEmpty(t, s, q) ==
  IF Len(sectionCaches[s].items) = 0
  THEN CallUpdate(t, s, "await2", "ret2")
  ELSE Scan(t, s, q)

\* searchInCache(s, q) from its call to its first suspension or its return
SearchCall(t, s, q) ==
  /\ pc[t] = "idle"
  /\ UNCHANGED <<nfail, siteVars, textVars>>
  /\ sec' = [sec EXCEPT ![t] = s]
  /\ query' = [query EXCEPT ![t] = q]
  /\ UNCHANGED now
  /\ IF needsUpdate(sectionCaches[s], now)
     THEN CallUpdate(t, s, "await1", "ret1")
     ELSE CheckEmpty(t, s, q)

\* the first await updateCache has resolved
SearchAfterFirst(t) ==
  /\ pc[t] = "ret1"
  /\ UNCHANGED <<nfail, siteVars, textVars>>
  /\ UNCHANGED <<now, sec, query>>
  /\ CheckEmpty(t, sec[t], query[t])

\* the second await updateCache has resolved
SearchAfterSecond(t) ==
  /\ pc[t] = "ret2"
  /\ UNCHANGED <<nfail, siteVars, textVars>>
  /\ UNCHANGED <<now, sec, query>>
  /\ Scan(t, sec[t], query[t])

\* the caller has taken the results; the searcher may be called again
SearchReturn(t) ==
  /\ pc[t] \in {"done", "legacyDone"}
  /\ pc' = [pc EXCEPT ![t] = "idle"]
  /\ results' = [results EXCEPT ![t] = <<>>]
  /\ nfetch' = [nfetch EXCEPT ![t] = 0]
  /\ nskip' = [nskip EXCEPT ![t] = 0]
  /\ nfail' = [nfail EXCEPT ![t] = 0]
  /\ UNCHANGED <<siteVars, textVars>>
  /\ sec' = [sec EXCEPT ![t] = "blog"]
  /\ query' = [query EXCEPT ![t] = <<>>]
  /\ UNCHANGED <<sectionCaches, now, fetching, hist>>

(***************************************************************************)
(* preloadCaches.                                                          *)
(***************************************************************************)
\* sections.map(updateCache): every call runs to its await or its return
\* before Promise.all is awaited; each touches the cache of its section only
PreloadCall(p) ==
  /\ pc[p] = "idle"
  /\ UNCHANGED <<nfail, siteVars, textVars>>
  /\ sectionCaches' =
       [s \in Sections |->
          IF HasFeedUrl(s) THEN beginUpdate(sectionCaches[s], s).cache
          ELSE sectionCaches[s]]
  /\ hist' = [s \in Sections |->
                IF HasFeedUrl(s) THEN histAfterBegin(s) ELSE hist[s]]
  /\ fetching' = fetching \cup
       {<<p, s>> : s \in {x \in DOMAIN rssFeedURLs :
                             beginUpdate(sectionCaches[x], x).fetch}}
  /\ pc' = [pc EXCEPT ![p] = "waiting"]
  /\ UNCHANGED <<now, sec, query, results, nfetch, nskip>>

\* a promise that resolves as soon as one updateCache has returned
promiseAll_any(p, inflight) ==
  \E s \in DOMAIN rssFeedURLs : <<p, s>> \notin inflight

\* Promise.all resolves once every updateCache of this call has returned
promiseAll(p, inflight) ==
  \A s \in DOMAIN rssFeedURLs : <<p, s>> \notin inflight

PreloadDone(p) ==
  /\ pc[p] = "waiting"
  /\ UNCHANGED <<nfail, siteVars, textVars>>
  /\ promiseAll(p, fetching)
  /\ pc' = [pc EXCEPT ![p] = "done"]
  /\ UNCHANGED <<sectionCaches, now, sec, query, results, nfetch, nskip,
                 fetching, hist>>

(***************************************************************************)
(* The Feed Source settles a call; updateCache runs on to its end.         *)
(***************************************************************************)
\* a search that checks the cache again after each update
Resumed_first(t) == IF t \in Searchers THEN [pc EXCEPT ![t] = "ret1"] ELSE pc

\* the awaiting searcher is resumed; a preload waits for all its calls
Resumed(t) ==
  IF t \in Searchers
  THEN [pc EXCEPT ![t] = IF pc[t] = "await1" THEN "ret1" ELSE "ret2"]
  ELSE pc

FetchSucceeds(t, s, feed) ==
  /\ <<t, s>> \in fetching
  /\ UNCHANGED <<nfail, siteVars, textVars>>
  /\ fetching' = fetching \ {<<t, s>>}
  /\ sectionCaches' =
       storeIn(sectionCaches, s,
               releaseFlag(storeFeed(sectionCaches[s], feed, now)))
  /\ hist' = [hist EXCEPT ![s] =
                [NoUpdate EXCEPT
                   !.outcome = "success", !.feed = feed,
                   !.dropped = \E i \in 1..Len(sectionCaches[s].items) :
                                 \A j \in 1..Len(feed) :
                                    feed[j].guid #
                                       sectionCaches[s].items[i].guid]]
  /\ pc' = Resumed(t)
  /\ UNCHANGED <<now, sec, query, results, nfetch, nskip>>

\* the caller of an updateCache whose fetchRSSFeed threw: the catch block
\* logs the error and throws nothing, so the caller goes on as after a
\* success; an error thrown on would end searchInCache and reject Promise.all
Rejected(t) ==
  IF updateCacheCatches THEN Resumed(t)
  ELSE [pc EXCEPT ![t] = IF t \in Searchers THEN "threw" ELSE "failed"]

\* fetchRSSFeed threw: the catch block logs, the finally block runs
FetchFails(t, s) ==
  /\ <<t, s>> \in fetching
  /\ fetching' = fetching \ {<<t, s>>}
  /\ sectionCaches' = storeIn(sectionCaches, s, releaseFlag(sectionCaches[s]))
  /\ hist' = [hist EXCEPT ![s] = [NoUpdate EXCEPT !.outcome = "failure"]]
  /\ pc' = Rejected(t)
  /\ nfail' = IF t \in Searchers THEN [nfail EXCEPT ![t] = @ + 1] ELSE nfail
  /\ UNCHANGED <<siteVars, textVars>>
  /\ UNCHANGED <<now, sec, query, results, nfetch, nskip>>

Tick ==
  /\ now + TickMs <= MaxNow
  /\ UNCHANGED <<nfail, siteVars, textVars>>
  /\ now' = now + TickMs
  /\ UNCHANGED <<sectionCaches, pc, sec, query, results, nfetch, nskip,
                 fetching, hist>>

Next ==
  \/ \E t \in Searchers, s \in SearchSections, q \in Queries :
        SearchCall(t, s, q)
  \/ \E t \in Searchers : SearchAfterFirst(t)
  \/ \E t \in Searchers : SearchAfterSecond(t)
  \/ \E t \in Searchers : SearchReturn(t)
  \/ \E p \in Preloaders : PreloadCall(p)
  \/ \E p \in Preloaders : PreloadDone(p)
  \/ \E t \in Tasks, s \in Sections :
        \E feed \in FeedsOf(s) : FetchSucceeds(t, s, feed)
  \/ \E t \in Tasks, s \in Sections : FetchFails(t, s)
  \/ Tick

Spec == Init /\ [][Next]_vars

\* fetchRSSFeed settles the call of task t for section s: it returns a feed
\* or throws
Settle(t, s) ==
  \/ \E feed \in FeedsOf(s) : FetchSucceeds(t, s, feed)
  \/ FetchFails(t, s)

\* the steps of Spec with preloadCaches called once
LiveNext ==
  \/ \E t \in Searchers, s \in SearchSections, q \in Queries :
        SearchCall(t, s, q)
  \/ \E t \in Searchers : SearchAfterFirst(t)
  \/ \E t \in Searchers : SearchAfterSecond(t)
  \/ \E t \in Searchers : SearchReturn(t)
  \/ PreloadCall("p1")
  \/ \E p \in Preloaders : PreloadDone(p)
  \/ \E t \in Tasks, s \in Sections : Settle(t, s)
  \/ Tick

\* every call of fetchRSSFeed settles in the end
LiveSpec ==
  /\ Init
  /\ [][LiveNext]_vars
  /\ \A t \in Tasks, s \in Sections : WF_vars(Settle(t, s))

(***************************************************************************)
(* SearchSpec: the search over every cached item list and every query of   *)
(* the bounds, on a section a refresh has just filled.                     *)
(***************************************************************************)
\* an item only its categories make findable
ItemD == RSSItem("g4", <<>>, <<>>,
                 << <<"a">>, <<"B","b","b","b"," ","a">> >>, "l6")

SearchPool == {ItemA, ItemB, ItemD}

\* the item lists a section may hold: ids are the keys of the map
ItemLists ==
  {l \in UNION {[1..n -> SearchPool] : n \in 1..MaxItems} :
     \A i, j \in 1..Len(l) : i # j => l[i].guid # l[j].guid}

QueryChars == {"a", "B", " "}

AllQueries == UNION {[1..n -> QueryChars] : n \in 0..MaxQueryLen}

SearchInit ==
  /\ \E l \in ItemLists :
        /\ sectionCaches =
             [s \in Sections |->
                IF s = "blog"
                THEN [items |-> l, lastUpdate |-> StartNow,
                      isUpdating |-> FALSE]
                ELSE initializeCache]
        /\ hist = [s \in Sections |->
                     IF s = "blog"
                     THEN [NoUpdate EXCEPT !.outcome = "success", !.feed = l]
                     ELSE NoUpdate]
  /\ now = StartNow
  /\ pc = [t \in Tasks |-> "idle"]
  /\ sec = [t \in Searchers |-> "blog"]
  /\ query = [t \in Searchers |-> <<>>]
  /\ results = [t \in Searchers |-> <<>>]
  /\ nfetch = [t \in Searchers |-> 0]
  /\ nskip = [t \in Searchers |-> 0]
  /\ fetching = {}
  /\ nfail = [t \in Searchers |-> 0]
  /\ params = [t \in Searchers |-> NoParams]
  /\ response = [t \in Searchers |-> NoResponse]
  /\ buffer = <<>>
  /\ feds = <<>>
  /\ outs = <<>>
  /\ errored = FALSE
  /\ faulted = <<>>
  /\ messages = <<>>
  /\ secured = <<>>
  /\ passes = 0
  /\ limited = NoLimit
  /\ buffers = [d \in Streams |-> <<>>]
  /\ fedTo = [k \in Streams |-> <<>>]
  /\ outOf = [k \in Streams |-> <<>>]
  /\ deduped = NoDedup

\* the feed search of documentation-helpers.ts on the feed the section holds
LegacySearch(t, s, q) ==
  /\ pc[t] = "idle"
  /\ UNCHANGED <<nfail, siteVars, textVars>>
  /\ sec' = [sec EXCEPT ![t] = s]
  /\ query' = [query EXCEPT ![t] = q]
  /\ results' = [results EXCEPT ![t] = legacyRssResults(hist[s].feed, q)]
  /\ pc' = [pc EXCEPT ![t] = "legacyDone"]
  /\ UNCHANGED <<sectionCaches, now, nfetch, nskip, fetching, hist>>

SearchNext ==
  \/ \E t \in Searchers, q \in AllQueries : SearchCall(t, "blog", q)
  \/ \E t \in Searchers, q \in AllQueries : LegacySearch(t, "blog", q)
  \/ \E t \in Searchers : SearchReturn(t)

SearchSpec == SearchInit /\ [][SearchNext]_vars

(***************************************************************************)
(* SiteSpec: searchFernandoBelottoSite (searchSite.ts), the search the     *)
(* chat route calls, over the cache the preloads of module load fill.      *)
(***************************************************************************)
\* section.toLowerCase() on the section names the callers of SiteSpec pass
sectionToLowerCase(section) ==
  CASE section = "Blog" -> "blog"
    [] section = "NEWS" -> "news"
    [] OTHER -> section

\* the section names the caller passes; the chat route passes home for none
SiteSections == {"blog", "Blog", "tools", "home"}

\* a feed item whose title came out of the XML parser as a number
ItemX == RSSItem("g5", NumberValue, <<"a">>, <<>>, "l5")

\* the answers of the Feed Source in SiteSpec
SiteFeeds == { <<ItemB, ItemN>>, <<ItemB, ItemX>> }

ErrorMessage == "Ocorreu um erro ao buscar informações."

\* lines 41-46: the structure returned at the end of the try block
siteReturn(p, formattedResults) ==
  [status |-> "fulfilled", section |-> p.section, query |-> p.query,
   results |-> formattedResults, message |-> <<>>]

\* an error that leaves searchFernandoBelottoSite rejects its promise
siteCatch_none(p) ==
  [status |-> "rejected", section |-> p.section, query |-> p.query,
   results |-> <<>>, message |-> <<>>]

\* lines 47-56: the structure returned by the catch block
siteCatch(p) ==
  [status |-> "fulfilled", section |-> p.section, query |-> p.query,
   results |-> <<>>, message |-> <<ErrorMessage>>]

\* lines 23-25: whether the section is searched in the cache
canUseRSS(normalizedSection) ==
  /\ normalizedSection \in {"blog", "news"}
  /\ HasFeedUrl(normalizedSection)

\* searchFernandoBelottoSite({section, query}) up to its first suspension:
\* the await of searchInCache, or its return for a section with no feed
SiteCall(t, section, q) ==
  /\ pc[t] = "idle"
  /\ params' = [params EXCEPT ![t] = [section |-> section, query |-> q]]
  /\ IF canUseRSS(sectionToLowerCase(section))
     THEN /\ sec' = [sec EXCEPT ![t] = sectionToLowerCase(section)]
          /\ query' = [query EXCEPT ![t] = q]
          /\ IF needsUpdate(sectionCaches[sec'[t]], now)
             THEN CallUpdate(t, sec'[t], "await1", "ret1")
             ELSE CheckEmpty(t, sec'[t], q)
          /\ UNCHANGED <<now, nfail, response, textVars>>
     ELSE /\ response' =
               [response EXCEPT
                  ![t] = siteReturn([section |-> section, query |-> q], <<>>)]
          /\ pc' = [pc EXCEPT ![t] = "responded"]
          /\ UNCHANGED <<sectionCaches, now, sec, query, results, nfetch,
                         nskip, fetching, hist, nfail, textVars>>

\* searchInCache has returned or thrown: the rest of the try block, or the
\* catch block
SiteSettle(t) ==
  /\ pc[t] \in {"done", "threw"}
  /\ response' =
       [response EXCEPT
          ![t] = IF pc[t] = "done" THEN siteReturn(params[t], results[t])
                 ELSE siteCatch(params[t])]
  /\ pc' = [pc EXCEPT ![t] = "responded"]
  /\ UNCHANGED <<sectionCaches, now, sec, query, results, nfetch, nskip,
                 fetching, hist, nfail, params, textVars>>

\* the chat route has taken the structure; the next tool call may come
SiteReturn(t) ==
  /\ pc[t] = "responded"
  /\ pc' = [pc EXCEPT ![t] = "idle"]
  /\ results' = [results EXCEPT ![t] = <<>>]
  /\ nfetch' = [nfetch EXCEPT ![t] = 0]
  /\ nskip' = [nskip EXCEPT ![t] = 0]
  /\ nfail' = [nfail EXCEPT ![t] = 0]
  /\ sec' = [sec EXCEPT ![t] = "blog"]
  /\ query' = [query EXCEPT ![t] = <<>>]
  /\ params' = [params EXCEPT ![t] = NoParams]
  /\ response' = [response EXCEPT ![t] = NoResponse]
  /\ UNCHANGED <<sectionCaches, now, fetching, hist, textVars>>

SiteNext ==
  \/ \E t \in Searchers, section \in SiteSections, q \in Queries :
        SiteCall(t, section, q)
  \/ \E t \in Searchers : SearchAfterFirst(t)
  \/ \E t \in Searchers : SearchAfterSecond(t)
  \/ \E t \in Searchers : SiteSettle(t)
  \/ \E t \in Searchers : SiteReturn(t)
  \/ \E p \in Preloaders : PreloadCall(p)
  \/ \E p \in Preloaders : PreloadDone(p)
  \/ \E t \in Tasks, s \in DOMAIN rssFeedURLs :
        \E feed \in SiteFeeds : FetchSucceeds(t, s, feed)
  \/ \E t \in Tasks, s \in DOMAIN rssFeedURLs : FetchFails(t, s)
  \/ Tick

SiteSpec == Init /\ [][SiteNext]_vars

(***************************************************************************)
(* PreloadSpec: the two preloadCaches calls of module load on their own.   *)
(***************************************************************************)
PreloadNext ==
  \/ \E p \in Preloaders : PreloadCall(p)
  \/ \E p \in Preloaders : PreloadDone(p)
  \/ \E p \in Preloaders, s \in DOMAIN rssFeedURLs :
        \E feed \in FeedsOf(s) : FetchSucceeds(p, s, feed)
  \/ \E p \in Preloaders, s \in DOMAIN rssFeedURLs : FetchFails(p, s)
  \/ Tick

PreloadSpec == Init /\ [][PreloadNext]_vars

(***************************************************************************)
(* The regular expressions of securityMiddleware.ts, matched as the        *)
(* backtracking matcher of JavaScript matches them.  A match that starts   *)
(* at index i is given by the index after its last character; 0 is no      *)
(* match.                                                                  *)
(***************************************************************************)
Digits == {"0", "1", "2", "3", "4", "5", "6", "7", "8", "9"}

\* [a-zA-Z0-9_]
WordChars ==
  {"a", "b", "c", "d", "e", "f", "g", "h", "i", "j", "k", "l", "m", "n", "o",
   "p", "q", "r", "s", "t", "u", "v", "w", "x", "y", "z",
   "A", "B", "C", "D", "E", "F", "G", "H", "I", "J", "K", "L", "M", "N", "O",
   "P", "Q", "R", "S", "T", "U", "V", "W", "X", "Y", "Z", "_"} \cup Digits

\* the characters . does not match
LineEnds == {"\n", "\r"}

\* whether s holds the character c at index i
Lit(s, i, c) == i >= 1 /\ i <= Len(s) /\ s[i] = c

\* whether s holds the characters of word from index i on
LitWord(s, i, word) ==
  /\ i + Len(word) - 1 <= Len(s)
  /\ \A k \in 1..Len(word) : s[i + k - 1] = word[k]

\* the first index >= i of s that holds no character of class
RunEnd(s, i, class) ==
  CHOOSE j \in i..(Len(s) + 1) :
     /\ j = Len(s) + 1 \/ s[j] \notin class
     /\ \A k \in i..(j - 1) : s[k] \in class

\* the first index >= i of s that holds a character of chars; Len(s)+1: none
IndexOfAny(s, i, chars) ==
  CHOOSE j \in i..(Len(s) + 1) :
     /\ j = Len(s) + 1 \/ s[j] \in chars
     /\ \A k \in i..(j - 1) : s[k] \notin chars

\* the last index of lo..hi at which s holds c; 0: none
LastIndexIn(s, lo, hi, c) ==
  IF \E j \in lo..hi : s[j] = c
  THEN CHOOSE j \in lo..hi :
          s[j] = c /\ \A k \in (j + 1)..hi : s[k] # c
  ELSE 0

\* the indices after each c of lo..hi, the last c first: where a greedy .*
\* followed by c may end, in the order the matcher tries
RECURSIVE ClosersGreedy(_, _, _, _)
ClosersGreedy(s, lo, hi, c) ==
  LET j == LastIndexIn(s, lo, hi, c)
  IN IF j = 0 THEN <<>>
     ELSE <<j + 1>> \o ClosersGreedy(s, lo, j - 1, c)

\* the same indices, the first c first: the order of a lazy .*?
RECURSIVE ClosersLazy(_, _, _, _)
ClosersLazy(s, lo, hi, c) ==
  LET j == IndexOfAny(s, lo, {c})
  IN IF j > hi THEN <<>>
     ELSE <<j + 1>> \o ClosersLazy(s, j + 1, hi, c)

\* the last index of the line that index i is on
LineLast(s, i) == IndexOfAny(s, i, LineEnds) - 1

\* a, and b where a is 0: what the matcher tries after a has failed
OrElse(a, b) == IF a # 0 THEN a ELSE b

\* the index after the character c at index i of s; 0: s holds no c there
After(s, i, c) == IF Lit(s, i, c) THEN i + 1 ELSE 0

\* the least element of a set of indices; 0: the set is empty
Least(S) == IF S = {} THEN 0 ELSE CHOOSE i \in S : \A j \in S : i <= j

\* the closing quote of the key that the quote at i opens, its characters
\* ending before index j
KeyClose(s, i, j) == IF j > i + 1 THEN After(s, j, "\"") ELSE 0

\* the key of a field at i: "[a-zA-Z0-9_]+" in the patterns of
\* JsonPatternDetector, "[^"]+" (anyKey) in those of preventDataLeakage
KeyEnd(s, i, anyKey) ==
  IF ~Lit(s, i, "\"") THEN 0
  ELSE KeyClose(s, i, IF anyKey THEN IndexOfAny(s, i + 1, {"\""})
                      ELSE RunEnd(s, i + 1, WordChars))

\* \s*: after a key that ends before index k; 0: no key, or no colon
ColonAfter(s, k) == IF k = 0 THEN 0 ELSE After(s, SkipSpace(s, k), ":")

\* key\s*: at i
KeyColonEnd(s, i, anyKey) == ColonAfter(s, KeyEnd(s, i, anyKey))

\* the end of "[^"]*" whose closing quote is looked for from index j on
StringEnds(s, j) == IF j <= Len(s) THEN <<j + 1>> ELSE <<>>

\* ("[^"]*"|[0-9]+|true|false|\{.*\}|\[.*\]) at i: the indices after the
\* value, in the order the matcher tries them.  The alternatives start with
\* different characters; a run of digits cut short is followed by a digit,
\* which nothing after a value matches.
ValueEnds(s, i) ==
  IF Lit(s, i, "\"") THEN StringEnds(s, IndexOfAny(s, i + 1, {"\""}))
  ELSE IF i <= Len(s) /\ s[i] \in Digits THEN <<RunEnd(s, i, Digits)>>
  ELSE IF LitWord(s, i, <<"t", "r", "u", "e">>) THEN <<i + 4>>
  ELSE IF LitWord(s, i, <<"f", "a", "l", "s", "e">>) THEN <<i + 5>>
  ELSE IF Lit(s, i, "{")
    THEN ClosersGreedy(s, i + 1, LineLast(s, i + 1), "}")
  ELSE IF Lit(s, i, "[")
    THEN ClosersGreedy(s, i + 1, LineLast(s, i + 1), "]")
  ELSE <<>>

\* \s*VALUE after the colon that ends before index colon; none without colon
ValuesAfter(s, colon) ==
  IF colon = 0 THEN <<>> ELSE ValueEnds(s, SkipSpace(s, colon))

\* (,\s*"key"\s*:\s*VALUE)*\s*\} at i: the star takes a further field where
\* the rest then matches, and otherwise none
RECURSIVE MoreFields(_, _, _)
RECURSIVE TryFields(_, _, _, _)
MoreFields(s, i, anyKey) ==
  OrElse(IF Lit(s, i, ",")
         THEN TryFields(s,
                        ValuesAfter(s, KeyColonEnd(s, SkipSpace(s, i + 1),
                                                   anyKey)),
                        FALSE, anyKey)
         ELSE 0,
         After(s, SkipSpace(s, i), "}"))

\* the first of the value ends after which the rest of the object matches;
\* only after the first value does \s* come before the star
TryFields(s, ends, first, anyKey) ==
  IF ends = <<>> THEN 0
  ELSE OrElse(MoreFields(s, IF first THEN SkipSpace(s, Head(ends))
                            ELSE Head(ends),
                         anyKey),
              TryFields(s, Tail(ends), first, anyKey))

\* the first pattern of JsonPatternDetector, and with anyKey the first
\* pattern of preventDataLeakage, at i
ObjectEnd(s, i, anyKey) ==
  IF ~Lit(s, i, "{") THEN 0
  ELSE TryFields(s,
                 ValuesAfter(s, KeyColonEnd(s, SkipSpace(s, i + 1), anyKey)),
                 TRUE, anyKey)

\* \{.*?\} at index open: the indices after it, in the order of a lazy .*?
ObjectsAfter(s, open) ==
  IF Lit(s, open, "{")
  THEN ClosersLazy(s, open + 1, LineLast(s, open + 1), "}")
  ELSE <<>>

\* (,\s*\{.*?\})*\s*\] at i
RECURSIVE MoreObjects(_, _)
RECURSIVE TryObjects(_, _, _)
MoreObjects(s, i) ==
  OrElse(IF Lit(s, i, ",")
         THEN TryObjects(s, ObjectsAfter(s, SkipSpace(s, i + 1)), FALSE)
         ELSE 0,
         After(s, SkipSpace(s, i), "]"))

TryObjects(s, ends, first) ==
  IF ends = <<>> THEN 0
  ELSE OrElse(MoreObjects(s, IF first THEN SkipSpace(s, Head(ends))
                             ELSE Head(ends)),
              TryObjects(s, Tail(ends), first))

\* \{\s*"key"\s*: at index open
FirstKey(s, open) ==
  IF Lit(s, open, "{") THEN KeyColonEnd(s, SkipSpace(s, open + 1), FALSE)
  ELSE 0

\* .*?\} after the colon that ends before index colon
ClosersFrom(s, colon) ==
  IF colon = 0 THEN <<>>
  ELSE ClosersLazy(s, colon, LineLast(s, colon), "}")

\* the second pattern of JsonPatternDetector at i
ArrayEnd(s, i) ==
  IF ~Lit(s, i, "[") THEN 0
  ELSE TryObjects(s, ClosersFrom(s, FirstKey(s, SkipSpace(s, i + 1))), TRUE)

\* ("[^"]*"|[0-9]+|true|false|\{.*\}) at i: a value that is no array
ElementEnds(s, i) == IF Lit(s, i, "[") THEN <<>> ELSE ValueEnds(s, i)

\* (,\s*ELEMENT)*\s*\] at i
RECURSIVE MoreElements(_, _)
RECURSIVE TryElements(_, _)
MoreElements(s, i) ==
  OrElse(IF Lit(s, i, ",")
         THEN TryElements(s, ElementEnds(s, SkipSpace(s, i + 1)))
         ELSE 0,
         After(s, SkipSpace(s, i), "]"))

TryElements(s, ends) ==
  IF ends = <<>> THEN 0
  ELSE OrElse(MoreElements(s, Head(ends)), TryElements(s, Tail(ends)))

\* the second pattern of preventDataLeakage at i
ValueArrayEnd(s, i) ==
  IF ~Lit(s, i, "[") THEN 0
  ELSE TryElements(s, ElementEnds(s, SkipSpace(s, i + 1)))

\* the match at i of a pattern of JsonPatternDetector (object, array) or of
\* preventDataLeakage (leakObject, leakArray)
MatchEnd(s, i, pattern) ==
  CASE pattern \in {"object", "leakObject"} ->
         ObjectEnd(s, i, pattern = "leakObject")
    [] pattern = "array" -> ArrayEnd(s, i)
    [] pattern = "leakArray" -> ValueArrayEnd(s, i)

\* the start of the first match of pattern from index from on; 0: none
FirstMatch(s, from, pattern) ==
  Least({i \in from..Len(s) : MatchEnd(s, i, pattern) # 0})

\* "[Conteúdo processado]"
ContentMarker ==
  <<"[", "C", "o", "n", "t", "e", "ú", "d", "o", " ",
    "p", "r", "o", "c", "e", "s", "s", "a", "d", "o", "]">>

\* s.replace(pattern, marker) with the g flag, from index from on
RECURSIVE ReplaceFrom(_, _, _, _)
RECURSIVE ReplaceAt(_, _, _, _, _)
ReplaceFrom(s, from, pattern, marker) ==
  ReplaceAt(s, from, FirstMatch(s, from, pattern), pattern, marker)

\* the same, the first match from index from on starting at index i
ReplaceAt(s, from, i, pattern, marker) ==
  IF i = 0 THEN SubSeq(s, from, Len(s))
  ELSE SubSeq(s, from, i - 1) \o marker
       \o ReplaceFrom(s, MatchEnd(s, i, pattern), pattern, marker)

(***************************************************************************)
(* The whole-message post-processor of securityMiddleware.ts.              *)
(***************************************************************************)
\* "[Dados processados]"
DataMarker ==
  <<"[", "D", "a", "d", "o", "s", " ",
    "p", "r", "o", "c", "e", "s", "s", "a", "d", "o", "s", "]">>

\* preventDataLeakage: patterns.forEach, one pattern after the other
preventDataLeakage(message) ==
  ReplaceFrom(ReplaceFrom(message, 1, "leakObject", DataMarker), 1,
              "leakArray", DataMarker)

\* s.trim()
trim(s) ==
  LET a == RunEnd(s, 1, WhiteSpace)
  IN IF a > Len(s) THEN <<>>
     ELSE SubSeq(s, a,
                 CHOOSE j \in a..Len(s) :
                    /\ s[j] \notin WhiteSpace
                    /\ \A k \in (j + 1)..Len(s) : s[k] \in WhiteSpace)

\* the index after the separator that starts at index j of s; 0: none does.
\* paragraphs: /\n\n+/, space: " ", spaces: /\s+/, sentences: /(?<=[.!?])\s+/
SepEnd(s, j, kind) ==
  CASE kind = "paragraphs" ->
         IF Lit(s, j, "\n") /\ Lit(s, j + 1, "\n")
         THEN RunEnd(s, j, {"\n"}) ELSE 0
    [] kind = "space" -> IF Lit(s, j, " ") THEN j + 1 ELSE 0
    [] kind = "spaces" ->
         IF j <= Len(s) /\ s[j] \in WhiteSpace
         THEN RunEnd(s, j, WhiteSpace) ELSE 0
    [] kind = "sentences" ->
         IF /\ j > 1 /\ j <= Len(s)
            /\ s[j] \in WhiteSpace
            /\ s[j - 1] \in {".", "!", "?"}
         THEN RunEnd(s, j, WhiteSpace) ELSE 0

\* the start of the first separator of s from index i on; 0: none
NextSep(s, i, kind) ==
  IF \E j \in i..Len(s) : SepEnd(s, j, kind) # 0
  THEN CHOOSE j \in i..Len(s) :
          /\ SepEnd(s, j, kind) # 0
          /\ \A k \in i..(j - 1) : SepEnd(s, k, kind) = 0
  ELSE 0

\* s.split(separator), from index i on
RECURSIVE splitBy(_, _, _)
splitBy(s, i, kind) ==
  LET j == NextSep(s, i, kind)
  IN IF j = 0 THEN <<SubSeq(s, i, Len(s))>>
     ELSE <<SubSeq(s, i, j - 1)>> \o splitBy(s, SepEnd(s, j, kind), kind)

\* parts.join(sep)
RECURSIVE join(_, _)
join(parts, sep) ==
  IF parts = <<>> THEN <<>>
  ELSE IF Len(parts) = 1 THEN parts[1]
  ELSE parts[1] \o sep \o join(Tail(parts), sep)

\* seq.slice(0, n)
slice(seq, n) == SubSeq(seq, 1, IF Len(seq) < n THEN Len(seq) ELSE n)

\* the length under which removeDuplicateContent returns the message as is
MinDedupLength == 100
\* the length under which a paragraph is kept without comparison
MinParagraphLength == 15
\* the words of a paragraph that make up its signature
ParagraphWords == 5

\* a signature that is the whole paragraph
firstWords_whole(normalized) == normalized

\* firstWords of the paragraph that trim and toLowerCase made normalized
firstWords(normalized) ==
  join(slice(splitBy(normalized, 1, "space"), ParagraphWords), <<" ">>)

\* the for loop of removeDuplicateContent
RECURSIVE uniqueParagraphs(_, _)
uniqueParagraphs(paragraphs, seenContent) ==
  IF paragraphs = <<>> THEN <<>>
  ELSE LET paragraph == Head(paragraphs)
           normalized == toLowerCase(trim(paragraph))
       IN IF Len(normalized) < MinParagraphLength
            THEN <<paragraph>> \o uniqueParagraphs(Tail(paragraphs),
                                                   seenContent)
          ELSE IF firstWords(normalized) \notin seenContent
            THEN <<paragraph>>
                 \o uniqueParagraphs(Tail(paragraphs),
                                     seenContent \cup
                                       {firstWords(normalized)})
          ELSE uniqueParagraphs(Tail(paragraphs), seenContent)

removeDuplicateContent(message) ==
  IF Len(message) < MinDedupLength THEN message
  ELSE join(uniqueParagraphs(splitBy(message, 1, "paragraphs"), {}),
            <<"\n", "\n">>)

\* the alternatives of the first pattern of introPatterns, in their order
IntroPhrases ==
  << <<"O", "l", "á", "!">>,
     <<"O", "i", "!">>,
     <<"B", "e", "m", "-", "v", "i", "n", "d", "o", "!">>,
     <<"B", "e", "m", "-", "v", "i", "n", "d", "o", " ", "a", "o", " ",
       "a", "s", "s", "i", "s", "t", "e", "n", "t", "e">>,
     <<"C", "l", "a", "r", "o", "!">>,
     <<"C", "o", "m", " ", "c", "e", "r", "t", "e", "z", "a", "!">>,
     <<"S", "e", "m", " ", "p", "r", "o", "b", "l", "e", "m", "a", "!">>,
     <<"E", "n", "t", "e", "n", "d", "i", "!">>,
     <<"E", "n", "t", "e", "n", "d", "i", " ", "s", "u", "a", " ", "p",
       "e", "r", "g", "u", "n", "t", "a">>,
     <<"V", "o", "u", " ", "r", "e", "s", "p", "o", "n", "d", "e", "r",
       " ", "s", "u", "a", " ", "p", "e", "r", "g", "u", "n", "t",
       "a">>,
     <<"V", "a", "m", "o", "s", " ", "l", "á">>,
     <<"A", "q", "u", "i", " ", "e", "s", "t", "á">>,
     <<"A", "q", "u", "i", " ", "v", "a", "i">>,
     <<"P", "a", "r", "a", " ", "r", "e", "s", "p", "o", "n", "d", "e",
       "r", " ", "s", "u", "a", " ", "p", "e", "r", "g", "u", "n",
       "t", "a">>,
     <<"D", "e", "i", "x", "e", "-", "m", "e", " ", "r", "e", "s", "p",
       "o", "n", "d", "e", "r">>,
     <<"A", "q", "u", "i", " ", "e", "s", "t", "á", " ", "a", " ", "r",
       "e", "s", "p", "o", "s", "t", "a">>,
     <<"A", "q", "u", "i", " ", "e", "s", "t", "á", " ", "o", " ", "q",
       "u", "e", " ", "e", "n", "c", "o", "n", "t", "r", "e", "i">>,
     <<"E", "n", "c", "o", "n", "t", "r", "e", "i", " ", "a", "l", "g",
       "u", "m", "a", "s", " ", "i", "n", "f", "o", "r", "m", "a",
       "ç", "õ", "e", "s">>,
     <<"E", "n", "c", "o", "n", "t", "r", "e", "i", " ", "o", " ", "s",
       "e", "g", "u", "i", "n", "t", "e">>,
     <<"D", "e", " ", "a", "c", "o", "r", "d", "o", " ", "c", "o", "m",
       " ", "o", " ", "s", "i", "t", "e", " ", "F", "e", "r", "n",
       "a", "n", "d", "o", " ", "B", "e", "l", "o", "t", "t", "o">> >>

\* the groups of the second pattern of introPatterns; [,\s]+ follows each
IntroStages ==
  << << <<"E", "u">>,
        <<"E", "u", " ", "v", "o", "u">>,
        <<"V", "o", "u">>,
        <<"P", "o", "s", "s", "o">> >>,
     << <<"t", "e">>,
        <<"l", "h", "e">>,
        <<"o">>,
        <<"a">> >>,
     << <<"a", "j", "u", "d", "a", "r">>,
        <<"a", "u", "x", "i", "l", "i", "a", "r">>,
        <<"i", "n", "f", "o", "r", "m", "a", "r">>,
        <<"d", "i", "z", "e", "r">>,
        <<"e", "x", "p", "l", "i", "c", "a", "r">>,
        <<"m", "o", "s", "t", "r", "a", "r">>,
        <<"a", "p", "r", "e", "s", "e", "n", "t", "a", "r">> >>,
     << <<"s", "o", "b", "r", "e">>,
        <<"c", "o", "m">>,
        <<"a", " ", "r", "e", "s", "p", "e", "i", "t", "o", " ", "d", "e">> >> >>

\* the third to fifth pattern of introPatterns: [.,!]?\s* follows each
IntroSentences ==
  << <<"B", "e", "m", "-", "v", "i", "n", "d", "o", " ", "a", "o", " ",
       "a", "s", "s", "i", "s", "t", "e", "n", "t", "e", " ", "d",
       "o", " ", "s", "i", "t", "e", " ", "F", "e", "r", "n", "a",
       "n", "d", "o", " ", "B", "e", "l", "o", "t", "t", "o">>,
     <<"E", "s", "t", "o", "u", " ", "a", "q", "u", "i", " ", "p", "a",
       "r", "a", " ", "a", "j", "u", "d", "á", "-", "l", "o">>,
     <<"S", "o", "u", " ", "e", "s", "p", "e", "c", "i", "a", "l", "i",
       "z", "a", "d", "o", " ", "n", "o", " ", "c", "o", "n", "t",
       "e", "ú", "d", "o", " ", "d", "o", " ", "s", "i", "t", "e",
       " ", "F", "e", "r", "n", "a", "n", "d", "o", " ", "B", "e",
       "l", "o", "t", "t", "o">> >>

\* the alternatives of the first pattern of outroPatterns
OutroPhrases ==
  << <<"E", "s", "p", "e", "r", "o", " ", "t", "e", "r", " ", "a", "j",
       "u", "d", "a", "d", "o", "!">>,
     <<"E", "s", "p", "e", "r", "o", " ", "t", "e", "r", " ", "r", "e",
       "s", "p", "o", "n", "d", "i", "d", "o", " ", "s", "u", "a",
       " ", "p", "e", "r", "g", "u", "n", "t", "a">>,
     <<"S", "e", " ", "p", "r", "e", "c", "i", "s", "a", "r", " ", "d",
       "e", " ", "m", "a", "i", "s", " ", "a", "l", "g", "u", "m",
       "a", " ", "c", "o", "i", "s", "a">>,
     <<"S", "e", " ", "t", "i", "v", "e", "r", " ", "m", "a", "i", "s",
       " ", "d", "ú", "v", "i", "d", "a", "s">>,
     <<"P", "o", "s", "s", "o", " ", "a", "j", "u", "d", "a", "r", " ",
       "c", "o", "m", " ", "m", "a", "i", "s", " ", "a", "l", "g",
       "u", "m", "a", " ", "c", "o", "i", "s", "a">>,
     <<"E", "s", "t", "o", "u", " ", "à", " ", "d", "i", "s", "p", "o",
       "s", "i", "ç", "ã", "o">>,
     <<"F", "i", "c", "o", " ", "à", " ", "d", "i", "s", "p", "o", "s",
       "i", "ç", "ã", "o">>,
     <<"E", "s", "t", "o", "u", " ", "a", "q", "u", "i", " ", "p", "a",
       "r", "a", " ", "a", "j", "u", "d", "a", "r">>,
     <<"Q", "u", "a", "l", "q", "u", "e", "r", " ", "d", "ú", "v", "i",
       "d", "a">>,
     <<"Q", "u", "a", "l", "q", "u", "e", "r", " ", "o", "u", "t", "r",
       "a", " ", "d", "ú", "v", "i", "d", "a">>,
     <<"C", "a", "s", "o", " ", "p", "r", "e", "c", "i", "s", "e", " ",
       "d", "e", " ", "m", "a", "i", "s", " ", "i", "n", "f", "o",
       "r", "m", "a", "ç", "õ", "e", "s">> >>

\* the second and third pattern of outroPatterns
OutroSentences ==
  << <<"N", "ã", "o", " ", "h", "e", "s", "i", "t", "e", " ", "e", "m",
       " ", "p", "e", "r", "g", "u", "n", "t", "a", "r", " ", "s",
       "e", " ", "t", "i", "v", "e", "r", " ", "m", "a", "i", "s",
       " ", "a", "l", "g", "u", "m", "a", " ", "d", "ú", "v", "i",
       "d", "a">>,
     <<"E", "s", "t", "o", "u", " ", "à", " ", "d", "i", "s", "p", "o",
       "s", "i", "ç", "ã", "o", " ", "p", "a", "r", "a", " ", "m",
       "a", "i", "s", " ", "e", "s", "c", "l", "a", "r", "e", "c",
       "i", "m", "e", "n", "t", "o", "s">> >>

\* [,\s]
IntroSeparators == {","} \cup WhiteSpace

\* [.,!]
SentenceMarks == {".", ",", "!"}

\* whether phrase matches s at index i under the i flag
PrefixAt(s, i, phrase) ==
  /\ i + Len(phrase) - 1 <= Len(s)
  /\ \A k \in 1..Len(phrase) : LowerChar(s[i + k - 1]) = LowerChar(phrase[k])

\* replace(/^(Olá!|...)[,\s]*/i, ""): the first alternative that matches
stripGreeting(s) ==
  IF \E a \in 1..Len(IntroPhrases) : PrefixAt(s, 1, IntroPhrases[a])
  THEN LET a == CHOOSE a \in 1..Len(IntroPhrases) :
                   /\ PrefixAt(s, 1, IntroPhrases[a])
                   /\ \A b \in 1..(a - 1) : ~PrefixAt(s, 1, IntroPhrases[b])
       IN SubSeq(s, RunEnd(s, Len(IntroPhrases[a]) + 1, IntroSeparators),
                 Len(s))
  ELSE s

\* the groups of stages matched at index i, each followed by [,\s]+, the
\* alternatives of a group tried in their order; the index after the match
RECURSIVE StagesEnd(_, _, _)
RECURSIVE TryPhrases(_, _, _, _)
StagesEnd(s, i, stages) ==
  IF stages = <<>> THEN i
  ELSE TryPhrases(s, i, Head(stages), Tail(stages))

TryPhrases(s, i, alternatives, stages) ==
  IF alternatives = <<>> THEN 0
  ELSE LET e == i + Len(Head(alternatives))
           r == IF /\ PrefixAt(s, i, Head(alternatives))
                   /\ RunEnd(s, e, IntroSeparators) > e
                THEN StagesEnd(s, RunEnd(s, e, IntroSeparators), stages)
                ELSE 0
       IN IF r # 0 THEN r
          ELSE TryPhrases(s, i, Tail(alternatives), stages)

\* replace(/^(Eu|Eu vou|Vou|Posso)[,\s]+(?:te|...)[,\s]+.../i, "")
stripOffer(s) ==
  IF StagesEnd(s, 1, IntroStages) = 0 THEN s
  ELSE SubSeq(s, StagesEnd(s, 1, IntroStages), Len(s))

\* the index after phrase[.,!]?\s* matched at index i; 0: no match
SentenceEnd(s, i, phrase) ==
  IF ~PrefixAt(s, i, phrase) THEN 0
  ELSE LET e == i + Len(phrase)
       IN RunEnd(s, IF e <= Len(s) /\ s[e] \in SentenceMarks THEN e + 1
                    ELSE e,
                 WhiteSpace)

\* replace(/^phrase[.,!]?\s*/i, "")
stripSentence(s, phrase) ==
  IF SentenceEnd(s, 1, phrase) = 0 THEN s
  ELSE SubSeq(s, SentenceEnd(s, 1, phrase), Len(s))

\* introPatterns.forEach
stripIntros(message) ==
  stripSentence(
    stripSentence(
      stripSentence(stripOffer(stripGreeting(message)), IntroSentences[1]),
      IntroSentences[2]),
    IntroSentences[3])

\* whether /\s*(Espero ter ajudado!|...)[^.]*\.?$/i matches from index i:
\* after the phrase no "." but, at most, the last character
OutroAt(s, i) ==
  \E a \in 1..Len(OutroPhrases) :
     /\ PrefixAt(s, RunEnd(s, i, WhiteSpace), OutroPhrases[a])
     /\ IndexOfAny(s, RunEnd(s, i, WhiteSpace) + Len(OutroPhrases[a]),
                   {"."}) >= Len(s)

\* whether /\s*phrase[.,!]?\s*$/i matches from index i
TrailAt(s, i, phrase) ==
  SentenceEnd(s, RunEnd(s, i, WhiteSpace), phrase) = Len(s) + 1

\* whether the outro pattern matches from index i: pattern 1 is the one of
\* OutroPhrases, patterns 2 and 3 are those of OutroSentences
OutroMatches(s, i, pattern) ==
  IF pattern = 1 THEN OutroAt(s, i)
  ELSE TrailAt(s, i, OutroSentences[pattern - 1])

\* replace(pattern, "") for an outro pattern: the match ends the string
stripOutro(s, pattern) ==
  IF \E i \in 1..Len(s) : OutroMatches(s, i, pattern)
  THEN SubSeq(s, 1,
              (CHOOSE i \in 1..Len(s) :
                  /\ OutroMatches(s, i, pattern)
                  /\ \A k \in 1..(i - 1) : ~OutroMatches(s, k, pattern)) - 1)
  ELSE s

\* outroPatterns.forEach
stripOutros(message) == stripOutro(stripOutro(stripOutro(message, 1), 2), 3)

\* the length under which a sentence is kept without comparison
MinSentenceLength == 10
\* the words of a sentence that make up its signature
SentenceWords == 4

\* sentenceStart
sentenceStart(sentence) ==
  join(slice(splitBy(toLowerCase(trim(sentence)), 1, "spaces"),
             SentenceWords),
       <<" ">>)

\* the for loop of enhanceConciseness
RECURSIVE uniqueSentences(_, _)
uniqueSentences(sentences, seenSentenceStarts) ==
  IF sentences = <<>> THEN <<>>
  ELSE LET sentence == Head(sentences)
       IN IF Len(trim(sentence)) < MinSentenceLength
            THEN <<sentence>> \o uniqueSentences(Tail(sentences),
                                                 seenSentenceStarts)
          ELSE IF sentenceStart(sentence) \notin seenSentenceStarts
            THEN <<sentence>>
                 \o uniqueSentences(Tail(sentences),
                                    seenSentenceStarts \cup
                                      {sentenceStart(sentence)})
          ELSE uniqueSentences(Tail(sentences), seenSentenceStarts)

enhanceConciseness(message) ==
  trim(join(uniqueSentences(
              splitBy(stripOutros(stripIntros(message)), 1, "sentences"),
              {}),
            <<" ">>))

\* a search for the last "." of the whole message
lastIndexOf_whole(message, fromIndex) ==
  LastIndexIn(message, 1, Len(message), ".") - 1

\* message.lastIndexOf(".", fromIndex), an index that counts from 0; -1: none
lastIndexOf(message, fromIndex) ==
  LastIndexIn(message, 1,
              IF fromIndex + 1 < Len(message) THEN fromIndex + 1
              ELSE Len(message),
              ".") - 1

\* a cut accepted at three quarters of maxChars as well
cutAccepted_ge(cutPoint, maxChars) == 4 * cutPoint >= 3 * maxChars

\* cutPoint > maxChars * 0.75
cutAccepted(cutPoint, maxChars) == 4 * cutPoint > 3 * maxChars

\* a hard cut that appends nothing
Ellipsis_none == <<>>

\* "..."
Ellipsis == <<".", ".", ".">>

limitResponseLength(message, maxChars) ==
  IF Len(message) <= maxChars THEN message
  ELSE IF cutAccepted(lastIndexOf(message, maxChars), maxChars)
    THEN SubSeq(message, 1, lastIndexOf(message, maxChars) + 1)
  ELSE SubSeq(message, 1, maxChars) \o Ellipsis

\* maxChars = 2000, the default of limitResponseLength
DefaultMaxChars == 2000
\* the maxChars applySecurityMiddleware passes
MiddlewareMaxChars == 2500

\* a callback that transforms the messages of every role
securedMessage_all(msg) ==
  [msg EXCEPT
     !.content =
        limitResponseLength(
          enhanceConciseness(
            removeDuplicateContent(preventDataLeakage(msg.content))),
          MiddlewareMaxChars)]

\* applySecurityMiddleware: what messages.map does to one message
securedMessage(msg) ==
  IF msg.role = "assistant"
  THEN [msg EXCEPT
          !.content =
             limitResponseLength(
               enhanceConciseness(
                 removeDuplicateContent(preventDataLeakage(msg.content))),
               MiddlewareMaxChars)]
  ELSE msg

(***************************************************************************)
(* JsonPatternDetector and the transform stream of createSecurityTransform.*)
(***************************************************************************)
\* the length the buffer may reach before it is cut
BufferCeiling == 10000
\* the characters a cut buffer keeps
BufferKeep == 1000

\* a detector that looks at the new chunk alone
appendChunk_alone(buf, chunk) == chunk

\* this.buffer += chunk
appendChunk(buf, chunk) == buf \o chunk

\* this.patterns.forEach: the patterns applied one after the other
redact(text) ==
  ReplaceFrom(ReplaceFrom(text, 1, "object", ContentMarker), 1, "array",
              ContentMarker)

\* a buffer that is never cut
trimBuffer_never(buf) == buf

\* a cut that keeps the first characters
trimBuffer_head(buf) ==
  IF Len(buf) > BufferCeiling THEN SubSeq(buf, 1, BufferKeep) ELSE buf

\* if (this.buffer.length > 10000) keep the last 1000 characters
trimBuffer(buf) ==
  IF Len(buf) > BufferCeiling
  THEN SubSeq(buf, Len(buf) - BufferKeep + 1, Len(buf))
  ELSE buf

\* a processChunk that returns the substituted form of the chunk alone
processChunk_fragment(buf, chunk) ==
  [buffer |-> trimBuffer(appendChunk(buf, chunk)),
   processed |-> redact(chunk)]

\* processChunk: the buffer it leaves and the text it returns
processChunk(buf, chunk) ==
  [buffer |-> trimBuffer(appendChunk(buf, chunk)),
   processed |-> redact(appendChunk(buf, chunk))]

(***************************************************************************)
(* StreamSpec: one transform stream of createSecurityTransform at a time,  *)
(* fed chunk after chunk.                                                  *)
(***************************************************************************)
\* chunks a stream is fed before the model stops feeding it
MaxCalls == 3

\* text of n characters that no pattern matches
Filler(n) == [i \in 1..n |-> "x"]

\* the chunks the model may feed: parts of an object and of an array of
\* objects, plain text, a long text of which three exceed the ceiling, and
\* one that exceeds it alone
Chunks ==
  { <<"{", "\"", "k", "\"", ":">>,
    <<"1", "}">>,
    <<" ", "\"", "v", "\"", ",", "\"", "k", "\"", ":", "2">>,
    <<"[", "{", "\"", "k", "\"", ":", "x", "}">>,
    <<",", "{", "y", "}", "]">>,
    <<"a", ".", "\n">>,
    Filler(BufferCeiling \div 2),
    Filler(BufferCeiling + 1) }

\* the text the chunks make up
RECURSIVE Concat(_)
Concat(chunks) ==
  IF chunks = <<>> THEN <<>> ELSE Head(chunks) \o Concat(Tail(chunks))

\* a chunk that is no BufferSource, such as a string
NoBufferSource == <<"#nobuffer">>

\* new TextDecoder().decode(chunk) throws a TypeError on such a chunk
decodeThrows(chunk) == chunk = NoBufferSource

\* whether transform catches what decode or processChunk throws: it has no
\* try block
transformCatches == FALSE

\* createSecurityTransform(): a new stream with a detector of its own
Open ==
  /\ feds # <<>> \/ errored
  /\ buffer' = <<>>
  /\ feds' = <<>>
  /\ outs' = <<>>
  /\ errored' = FALSE
  /\ faulted' = <<>>
  /\ UNCHANGED <<cacheVars, postVars, pairVars, dedupVars>>

\* transform(chunk, controller): processChunk, then enqueue what it returned;
\* a stream in the errored state takes no chunk
Transform(chunk) ==
  /\ ~errored
  /\ UNCHANGED <<errored, faulted>>
  /\ Len(feds) < MaxCalls
  /\ buffer' = processChunk(buffer, chunk).buffer
  /\ outs' = Append(outs, processChunk(buffer, chunk).processed)
  /\ feds' = Append(feds, chunk)
  /\ UNCHANGED <<cacheVars, postVars, pairVars, dedupVars>>

\* transform(chunk, controller) on a chunk that decode throws on: an error
\* that leaves transform puts the TransformStream in the errored state, its
\* readable side delivers nothing more; a transform that caught the error
\* would enqueue the chunk as it is
TransformThrows(chunk) ==
  /\ ~errored
  /\ Len(feds) < MaxCalls
  /\ decodeThrows(chunk)
  /\ faulted' = <<chunk>>
  /\ errored' = ~transformCatches
  /\ outs' = IF transformCatches THEN Append(outs, chunk) ELSE outs
  /\ UNCHANGED <<buffer, feds>>
  /\ UNCHANGED <<cacheVars, postVars, pairVars, dedupVars>>

StreamNext ==
  \/ Open
  \/ \E chunk \in Chunks : Transform(chunk)
  \/ TransformThrows(NoBufferSource)

StreamSpec == Init /\ [][StreamNext]_vars

(***************************************************************************)
(* PairSpec: two transform streams of createSecurityTransform open side by *)
(* side, their transform calls interleaved.                                *)
(***************************************************************************)
\* a detector that the module would hold for all its streams
detectorOf_shared(k) == "a"

\* const detector = new JsonPatternDetector(), in createSecurityTransform:
\* each stream has the detector its own call created
detectorOf(k) == k

\* the chunks fed to the streams open side by side: the two parts of an
\* object, and plain text
PairChunks ==
  { <<"{", "\"", "k", "\"", ":">>,
    <<"1", "}">>,
    <<"a", ".">> }

\* transform(chunk, controller) of stream k
PairTransform(k, chunk) ==
  /\ Len(fedTo[k]) < MaxCalls
  /\ buffers' =
       [buffers EXCEPT
          ![detectorOf(k)] = processChunk(buffers[detectorOf(k)], chunk).buffer]
  /\ outOf' =
       [outOf EXCEPT
          ![k] = Append(@, processChunk(buffers[detectorOf(k)],
                                        chunk).processed)]
  /\ fedTo' = [fedTo EXCEPT ![k] = Append(@, chunk)]
  /\ UNCHANGED <<cacheVars, streamVars, postVars, dedupVars>>

PairNext == \E k \in Streams, chunk \in PairChunks : PairTransform(k, chunk)

PairSpec == Init /\ [][PairNext]_vars

(***************************************************************************)
(* DedupSpec: calls of removeDuplicateContent, one at a time.              *)
(***************************************************************************)
\* the paragraphs of the longest message
MaxParagraphs == 3

\* a paragraph of 15 characters or more
ParagraphA ==
  <<"O", "s", " ", "p", "o", "s", "t", "s", " ", "d", "o", " ", "b", "l",
    "o", "g", " ", "f", "a", "l", "a", "m", " ", "d", "e", " ", "R", "e",
    "a", "c", "t", ",", " ", "d", "e", " ", "t", "e", "s", "t", "e", "s",
    " ", "e", " ", "d", "e", " ", "a", "c", "e", "s", "s", "i", "b", "i",
    "l", "i", "d", "a", "d", "e", " ", "w", "e", "b", ".">>

\* one that begins, after trim and toLowerCase, with the same five words
ParagraphA2 ==
  <<" ", "o", "s", " ", "p", "o", "s", "t", "s", " ", "d", "o", " ", "b",
    "l", "o", "g", " ", "f", "a", "l", "a", "m", " ", "t", "a", "m", "b",
    "é", "m", " ", "d", "e", " ", "d", "e", "s", "i", "g", "n", ".">>

\* one that begins with other words
ParagraphB ==
  <<"A", "s", " ", "n", "o", "t", "í", "c", "i", "a", "s", " ", "d", "a",
    " ", "s", "e", "m", "a", "n", "a", " ", "t", "r", "a", "t", "a", "m",
    " ", "d", "e", " ", "I", "A", ".">>

\* one of 48 characters whose first five words are those of ParagraphS
ParagraphC ==
  <<"a", " ", "b", " ", "c", " ", "d", " ", "e", " ", "f", " ", "g", " ",
    "h", " ", "i", " ", "j", " ", "k", " ", "l", " ", "m", " ", "n", " ",
    "o", " ", "p", " ", "q", " ", "r", " ", "s", " ", "t", " ", "u", " ",
    "v", " ", "w", " ", "x", ".">>

\* a paragraph of 14 characters
ParagraphS ==
  <<"a", " ", "b", " ", "c", " ", "d", " ", "e", " ", "f", " ", "g", "h">>

\* another paragraph of fewer than 15 characters
ParagraphT ==
  <<"R", "e", "s", "u", "m", "o", ":">>

\* a paragraph of 15 characters
ParagraphE ==
  <<"u", "m", " ", "d", "o", "i", "s", " ", "t", "r", "e", "s", " ", "o",
    "k">>

Paragraphs ==
  {ParagraphA, ParagraphA2, ParagraphB, ParagraphC, ParagraphS, ParagraphT,
   ParagraphE}

\* the lists of n paragraphs
RECURSIVE ParagraphLists(_)
ParagraphLists(n) ==
  IF n = 0 THEN {<<>>}
  ELSE {<<p>> \o l : p \in Paragraphs, l \in ParagraphLists(n - 1)}

\* the messages: up to MaxParagraphs paragraphs with an empty line between
\* them, or two with two empty lines between them
DedupMessages ==
  {join(l, <<"\n", "\n">>) :
     l \in UNION {ParagraphLists(n) : n \in 1..MaxParagraphs}}
  \cup {join(l, <<"\n", "\n", "\n">>) : l \in ParagraphLists(2)}

\* removeDuplicateContent(message)
DedupCall(message) ==
  /\ deduped = NoDedup
  /\ deduped' = [message |-> message,
                 result |-> removeDuplicateContent(message)]
  /\ UNCHANGED <<cacheVars, streamVars, postVars, pairVars>>

\* the caller has taken what the call returned
DedupTaken ==
  /\ deduped # NoDedup
  /\ deduped' = NoDedup
  /\ UNCHANGED <<cacheVars, streamVars, postVars, pairVars>>

DedupNext ==
  \/ \E message \in DedupMessages : DedupCall(message)
  \/ DedupTaken

DedupSpec == Init /\ [][DedupNext]_vars

(***************************************************************************)
(* Calls of limitResponseLength and of applySecurityMiddleware.            *)
(***************************************************************************)
\* messages.map((msg) => ...)
RECURSIVE applySecurityMiddleware(_)
applySecurityMiddleware(msgs) ==
  IF msgs = <<>> THEN <<>>
  ELSE <<securedMessage(Head(msgs))>> \o applySecurityMiddleware(Tail(msgs))

MaxMessageLen == 7
MaxMaxChars == 5
MaxMessages == 2
MaxPasses == 2

\* every short message of letters and full stops
ShortMessages == UNION {[1..n -> {"x", "."}] : n \in 0..MaxMessageLen}

\* messages longer than the default maxChars: the last "." beyond three
\* quarters of it, at three quarters of it, at maxChars itself, at the
\* start, and none
LongMessages ==
  { Filler((3 * DefaultMaxChars) \div 4 + 50) \o <<".">>
      \o Filler(DefaultMaxChars \div 4 - 50),
    Filler((3 * DefaultMaxChars) \div 4) \o <<".">>
      \o Filler(DefaultMaxChars \div 4),
    Filler(DefaultMaxChars) \o <<".">>,
    <<".">> \o Filler(DefaultMaxChars),
    Filler(DefaultMaxChars + 1) }

\* two introductions, one after the other
Greetings ==
  <<"O", "l", "á", "!", " ", "C", "l", "a", "r", "o", "!", " ", "V", "e",
    "j", "a", " ", "o", " ", "b", "l", "o", "g", ".">>

\* an answer no step changes
PlainAnswer ==
  <<"V", "e", "j", "a", " ", "o", " ", "b", "l", "o", "g", ".", " ", "T",
    "e", "m", " ", "a", "r", "t", "i", "g", "o", "s", " ", "n", "o", "v",
    "o", "s", ".">>

\* an answer that holds an object and an array
JsonAnswer ==
  <<"D", "a", "d", "o", "s", ":", " ", "{", "\"", "k", "\"", ":", "1", "}",
    " ", "e", " ", "[", "\"", "a", "\"", ",", "2", "]", ".">>

\* two paragraphs that begin with the same five words
RepeatedAnswer ==
  <<"O", " ", "s", "i", "t", "e", " ", "t", "e", "m", " ", "a", "r", "t",
    "i", "g", "o", "s", " ", "n", "o", "v", "o", "s", " ", "s", "o", "b",
    "r", "e", " ", "j", "a", "r", "d", "i", "n", "a", "g", "e", "m", " ",
    "e", " ", "s", "o", "b", "r", "e", " ", "c", "u", "l", "i", "n", "á",
    "r", "i", "a", " ", "t", "o", "d", "a", " ", "s", "e", "m", "a", "n",
    "a", ".", "\n", "\n", "O", " ", "s", "i", "t", "e", " ", "t", "e", "m",
    " ", "a", "r", "t", "i", "g", "o", "s", " ", "n", "o", "v", "o", "s",
    ",", " ", "e", " ", "o", " ", "b", "l", "o", "g", " ", "t", "a", "m",
    "b", "é", "m", ":", " ", "v", "e", "j", "a", " ", "h", "o", "j", "e",
    " ", "m", "e", "s", "m", "o", ".">>

\* a content longer than the maxChars of applySecurityMiddleware, without "."
LongAnswer == Filler(MiddlewareMaxChars + 1)

\* the contents of the messages of the lists of several messages
Contents == {Greetings, PlainAnswer, JsonAnswer, RepeatedAnswer}

Roles == {"assistant", "user"}

\* the fields of a Message the middleware does not read stand as one, id
Messages == [id : {"m1"}, role : Roles, content : Contents]

\* the lists of messages of the model: those of up to MaxMessages messages
\* of the contents above, and those of one message of the long content
MessageLists ==
  UNION {[1..n -> Messages] : n \in 1..MaxMessages}
    \cup {<<[id |-> "m1", role |-> r, content |-> LongAnswer]>> :
            r \in Roles}

\* no call of the two functions is under way: they run to their return
Idle == limited = NoLimit /\ passes = 0

\* limitResponseLength(message, maxChars)
LimitCall(message, maxChars) ==
  /\ Idle
  /\ limited' = [message |-> message, maxChars |-> maxChars,
                 result |-> limitResponseLength(message, maxChars)]
  /\ UNCHANGED <<dedupVars, pairVars, cacheVars, streamVars, messages, secured, passes>>

\* limitResponseLength(message): maxChars takes its default
LimitCallDefault(message) ==
  /\ Idle
  /\ limited' = [message |-> message, maxChars |-> DefaultMaxChars,
                 result |-> limitResponseLength(message, DefaultMaxChars)]
  /\ UNCHANGED <<dedupVars, pairVars, cacheVars, streamVars, messages, secured, passes>>

\* applySecurityMiddleware(msgs)
MiddlewareCall(msgs) ==
  /\ Idle
  /\ messages' = msgs
  /\ secured' = applySecurityMiddleware(msgs)
  /\ passes' = 1
  /\ UNCHANGED <<dedupVars, pairVars, cacheVars, streamVars, limited>>

\* applySecurityMiddleware called with what its latest call returned
MiddlewareAgain ==
  /\ passes >= 1
  /\ passes < MaxPasses
  /\ messages' = secured
  /\ secured' = applySecurityMiddleware(secured)
  /\ passes' = passes + 1
  /\ UNCHANGED <<dedupVars, pairVars, cacheVars, streamVars, limited>>

\* the caller has taken what the call returned
Taken ==
  /\ ~Idle
  /\ messages' = <<>>
  /\ secured' = <<>>
  /\ passes' = 0
  /\ limited' = NoLimit
  /\ UNCHANGED <<dedupVars, pairVars, cacheVars, streamVars>>

PostNext ==
  \/ \E message \in ShortMessages, maxChars \in 0..MaxMaxChars :
        LimitCall(message, maxChars)
  \/ \E message \in LongMessages : LimitCallDefault(message)
  \/ \E msgs \in MessageLists : MiddlewareCall(msgs)
  \/ MiddlewareAgain
  \/ Taken

PostSpec == Init /\ [][PostNext]_vars

(***************************************************************************)
(* Properties of the refresh protocol, checked under Spec.                 *)
(***************************************************************************)
Ended == {"success", "failure", "nourl"}

FetchesOf(s) == {f \in fetching : f[2] = s}

\* C1: whenever the latest refresh of a section has ended, by success, by a
\* Feed Source failure or for want of a feed URL, the section's isUpdating
\* flag is false.
C1_FlagReleased ==
  \A s \in Sections :
     hist[s].outcome \in Ended => ~sectionCaches[s].isUpdating

\* a refresh has ended in each of the three ways
C1_Witness ==
  /\ hist["blog"].outcome = "failure"
  /\ hist["news"].outcome = "success"
  /\ hist["tools"].outcome = "nourl"

\* C2: at most one Feed Source call is in flight for a section at any time,
\* whatever the interleaving of searches and preloads.
C2_OneFetchPerSection ==
  \A s \in Sections : Cardinality(FetchesOf(s)) <= 1

\* the first preload has both fetches in flight while the second preload and
\* a search of blog have called updateCache and started none
C2_Witness ==
  /\ fetching = {<<"p1", "blog">>, <<"p1", "news">>}
  /\ pc["p2"] = "waiting"
  /\ pc["s1"] = "ret1" /\ sec["s1"] = "blog" /\ nskip["s1"] = 1

\* C3: a search of a section whose item map is not empty and whose
\* lastUpdate is at most 30 minutes old calls the Feed Source not once: the
\* call returns in the step that made it.
C3_TTL ==
  [][\A t \in Searchers, s \in Sections :
        ( /\ pc[t] = "idle" /\ pc'[t] # "idle" /\ sec'[t] = s
          /\ Len(sectionCaches[s].items) > 0
          /\ now - sectionCaches[s].lastUpdate <= 30 * 60 * 1000 )
        => (fetching' = fetching /\ pc'[t] = "done" /\ nfetch'[t] = 0)]_vars

\* a search has returned results without a fetch from a map that is exactly
\* 30 minutes old
C3_Witness ==
  \E t \in Searchers :
     /\ pc[t] = "done" /\ nfetch[t] = 0 /\ nskip[t] = 0
     /\ results[t] # <<>>
     /\ hist[sec[t]].outcome = "success"
     /\ now - sectionCaches[sec[t]].lastUpdate = 30 * 60 * 1000

\* C4: after a successful refresh the section holds exactly the items of
\* the fetched feed, keyed by id: every item held is an item of that feed,
\* every id of the feed is held once, and nothing of the previous set stays.
C4_RefreshReplaces ==
  \A s \in Sections :
     hist[s].outcome = "success" =>
       LET items == sectionCaches[s].items
           feed == hist[s].feed
       IN /\ \A i \in 1..Len(items) :
                \E j \in 1..Len(feed) : feed[j] = items[i]
          /\ \A j \in 1..Len(feed) :
                feed[j].guid # "" =>
                  \E i \in 1..Len(items) : items[i].guid = feed[j].guid
          /\ \A i, k \in 1..Len(items) :
                items[i].guid = items[k].guid => i = k

\* a refresh has replaced a set holding an item the new feed lacks
C4_Witness ==
  /\ hist["blog"].outcome = "success"
  /\ hist["blog"].dropped
  /\ Len(sectionCaches["blog"].items) > 0

\* C5: when the Feed Source fails, the items and the lastUpdate of the
\* section are what they were when the refresh started.
C5_FailSoft ==
  [][\A s \in Sections :
        (hist[s].outcome = "running" /\ hist'[s].outcome = "failure")
        => /\ sectionCaches'[s].items = hist[s].before.items
           /\ sectionCaches'[s].lastUpdate = hist[s].before.lastUpdate]_vars

\* a refresh of a section that held items has failed and the items are there
C5_Witness ==
  /\ hist["blog"].outcome = "failure"
  /\ Len(sectionCaches["blog"].items) > 0
  /\ sectionCaches["blog"].lastUpdate > 0

\* C6: a step of a search taken while a refresh of its section is in flight
\* starts no Feed Source call and does not suspend the search on that
\* refresh; a search waits only for a fetch it started itself, and what it
\* returns is the search of the items the section holds at that step.
C6_NoSecondFetchNoWait ==
  /\ [](\A t \in Searchers :
          pc[t] \in {"await1", "await2"} => <<t, sec[t]>> \in fetching)
  /\ [][\A t \in Searchers :
          ( /\ pc[t] \in {"idle", "ret1", "ret2"} /\ pc'[t] # pc[t]
            /\ sectionCaches[sec'[t]].isUpdating )
          => /\ fetching' = fetching
             /\ pc'[t] \notin {"await1", "await2"}
             /\ pc'[t] = "done" =>
                  results'[t] =
                    searchItems(sectionCaches[sec'[t]].items, query'[t])]_vars

\* a search found the refresh of another task in flight at both of its
\* checks and has returned the empty map's answer while it is still in flight
C6_Witness ==
  \E t \in Searchers :
     /\ pc[t] = "done" /\ nskip[t] = 2 /\ nfetch[t] = 0
     /\ results[t] = <<>>
     /\ sectionCaches[sec[t]].isUpdating
     /\ \E o \in Tasks \ {t} : <<o, sec[t]>> \in fetching

(***************************************************************************)
(* Properties of the search, checked under SearchSpec.                     *)
(***************************************************************************)
HasTier(res, tier) == \E k \in 1..Len(res) : res[k].relevance = tier

\* the place in the item list of the item a result was made from
ItemIndex(items, res) == CHOOSE i \in 1..Len(items) : items[i].link = res.url

\* the tier the results give an item, "none" when they leave it out
TierOf(res, item) ==
  IF \E k \in 1..Len(res) : res[k].url = item.link
  THEN res[CHOOSE k \in 1..Len(res) : res[k].url = item.link].relevance
  ELSE "none"

\* the lower-cased text is part of the lower-cased title, description or of
\* one lower-cased category
Contains(item, text) ==
  \E field \in {item.title, item.description}
                 \cup {item.category[k] : k \in 1..Len(item.category)} :
     includes(toLowerCase(field), toLowerCase(text))

\* the white-space separated tokens of a text: its maximal runs of other
\* characters
Tokens(text) ==
  {SubSeq(text, i, j) : <<i, j>> \in
     {ij \in (1..Len(text)) \X (1..Len(text)) :
        /\ ij[1] <= ij[2]
        /\ \A k \in ij[1]..ij[2] : text[k] \notin {" ", "\t", "\n"}
        /\ ij[1] = 1 \/ text[ij[1] - 1] \in {" ", "\t", "\n"}
        /\ ij[2] = Len(text) \/ text[ij[2] + 1] \in {" ", "\t", "\n"}}}

LongTokens(text) == {w \in Tokens(text) : Len(w) > 3}

C8_TierThenItemOrder ==
  \A t \in Searchers :
     pc[t] = "done" =>
       LET res == results[t]
           items == sectionCaches[sec[t]].items
       IN \A i, j \in 1..Len(res) :
             i < j =>
               /\ ~(res[i].relevance = "medium" /\ res[j].relevance = "high")
               /\ res[i].relevance = res[j].relevance =>
                    ItemIndex(items, res[i]) < ItemIndex(items, res[j])

\* a high result stands before a medium result whose item comes first
C8_Witness ==
  \E t \in Searchers :
     /\ pc[t] = "done" /\ Len(results[t]) = 2
     /\ results[t][1].relevance = "high"
     /\ results[t][2].relevance = "medium"
     /\ ItemIndex(sectionCaches[sec[t]].items, results[t][2])
          < ItemIndex(sectionCaches[sec[t]].items, results[t][1])

\* C9: an item is returned as high exactly when the lower-cased query is
\* part of its lower-cased title, description or of a category; an item
\* that contains neither the query nor a keyword is left out; the empty
\* query returns every item as high.
C9_HighIffExact ==
  \A t \in Searchers :
     pc[t] = "done" =>
       LET res == results[t]
           items == sectionCaches[sec[t]].items
       IN /\ \A i \in 1..Len(items) :
                /\ TierOf(res, items[i]) = "high"
                     <=> Contains(items[i], query[t])
                /\ ( /\ ~Contains(items[i], query[t])
                     /\ \A w \in LongTokens(query[t]) :
                           ~Contains(items[i], w) )
                   => TierOf(res, items[i]) = "none"
          /\ query[t] = <<>> =>
               /\ Len(res) = Len(items)
               /\ \A k \in 1..Len(res) : res[k].relevance = "high"

\* one item is high by a category alone and another is left out
C9_Witness ==
  \E t \in Searchers :
     /\ pc[t] = "done" /\ query[t] # <<>>
     /\ \E i, j \in 1..Len(sectionCaches[sec[t]].items) :
           LET items == sectionCaches[sec[t]].items
           IN /\ TierOf(results[t], items[i]) = "high"
              /\ ~includes(toLowerCase(items[i].title), toLowerCase(query[t]))
              /\ ~includes(toLowerCase(items[i].description),
                           toLowerCase(query[t]))
              /\ TierOf(results[t], items[j]) = "none"

\* C10: when no item contains the whole query, the items returned are those
\* that contain a token of the query longer than 3 characters, each as
\* medium; a query of shorter tokens alone returns nothing.
C10_KeywordFallback ==
  \A t \in Searchers :
     LET res == results[t]
         items == sectionCaches[sec[t]].items
     IN ( /\ pc[t] = "done"
          /\ \A i \in 1..Len(items) : ~Contains(items[i], query[t]) )
        => /\ \A i \in 1..Len(items) :
                 TierOf(res, items[i]) =
                   IF \E w \in LongTokens(query[t]) : Contains(items[i], w)
                   THEN "medium" ELSE "none"
           /\ LongTokens(query[t]) = {} => res = <<>>

\* no item contains the query; one that contains a long token is medium
\* and one that contains only a token of at most 3 characters is left out
C10_Witness ==
  \E t \in Searchers :
     LET items == sectionCaches[sec[t]].items
     IN /\ pc[t] = "done"
        /\ \A i \in 1..Len(items) : ~Contains(items[i], query[t])
        /\ \E i, j \in 1..Len(items) :
              /\ TierOf(results[t], items[i]) = "medium"
              /\ TierOf(results[t], items[j]) = "none"
              /\ \E w \in Tokens(query[t]) :
                    Len(w) <= 3 /\ Contains(items[j], w)

(***************************************************************************)
(* Properties of searchFernandoBelottoSite, checked under SiteSpec.        *)
(***************************************************************************)
\* C11: the promise of searchFernandoBelottoSite is never rejected, and when
\* the query path has thrown (here: the scan met a title that is no string)
\* the structure returned has empty results and a failure message.
C11_SearchNeverRaises ==
  /\ [](\A t \in Searchers : response[t].status # "rejected")
  /\ [][\A t \in Searchers :
          (pc[t] = "threw" /\ pc'[t] # "threw")
          => /\ response'[t].status = "fulfilled"
             /\ response'[t].results = <<>>
             /\ response'[t].message # <<>>]_vars

\* a search of a section that holds an item with a number for its title has
\* been answered with the failure message
C11_Witness ==
  \E t \in Searchers :
     /\ pc[t] = "responded"
     /\ scanThrows(sectionCaches[sec[t]].items)
     /\ response[t].status = "fulfilled"
     /\ response[t].results = <<>>
     /\ response[t].message = <<ErrorMessage>>

\* C12: the structure returned for a section that has no feed entry, such as
\* tools or home, has its message field populated.
C12_MessageWhenNoCache ==
  \A t \in Searchers :
     ( /\ response[t].status = "fulfilled"
       /\ ~HasFeedUrl(sectionToLowerCase(response[t].section)) )
     => response[t].message # <<>>

C14_PreloadIsolatesFailure ==
  /\ [](\A p \in Preloaders :
          /\ pc[p] # "failed"
          /\ pc[p] = "done" => \A s \in Sections : <<p, s>> \notin fetching)
  /\ [][\A p \in Preloaders, s \in Sections :
          ( /\ <<p, s>> \in fetching
            /\ <<p, s>> \notin fetching'
            /\ hist'[s].outcome = "failure" )
          => \A o \in Sections \ {s} :
                /\ sectionCaches'[o] = sectionCaches[o]
                /\ hist'[o] = hist[o]
                /\ FetchesOf(o)' = FetchesOf(o)]_vars

\* the first preloadCaches call has ended, alone, after the fetch of blog
\* failed and the fetch of news stored its feed
C14_Witness ==
  /\ pc["p1"] = "done" /\ pc["p2"] = "idle"
  /\ hist["blog"].outcome = "failure"
  /\ hist["news"].outcome = "success"
  /\ Len(sectionCaches["news"].items) > 0
  /\ Len(sectionCaches["blog"].items) = 0

\* C15: at the step a preloadCaches call returns, a refresh has ended for
\* every section that has a feed and none is in flight.
C15_AllRefreshedOnReturn ==
  [][\A p \in Preloaders :
       (pc[p] = "waiting" /\ pc'[p] = "done")
       => \A s \in DOMAIN rssFeedURLs :
             FetchesOf(s) = {} /\ hist[s].outcome \in Ended]_vars

\* C15 (amended): at the step a preloadCaches call returns, none of the
\* refreshes this call started is in flight, and every section that has a
\* feed either has had a refresh end or has a refresh in flight that another
\* call started.
C15_OwnRefreshesDoneOnReturn ==
  [][\A p \in Preloaders :
       (pc[p] = "waiting" /\ pc'[p] = "done")
       => \A s \in DOMAIN rssFeedURLs :
             /\ <<p, s>> \notin fetching
             /\ \/ hist[s].outcome \in {"success", "failure"}
                \/ \E q \in Tasks \ {p} : <<q, s>> \in fetching]_vars

\* the second preloadCaches call has returned while both fetches the first
\* call started are in flight and no refresh has ended yet
C15_Witness ==
  /\ pc["p2"] = "done" /\ pc["p1"] = "waiting"
  /\ fetching = {<<"p1", "blog">>, <<"p1", "news">>}
  /\ \A s \in DOMAIN rssFeedURLs : hist[s].outcome = "running"

(***************************************************************************)
(* Properties of the streaming filter, checked under StreamSpec.           *)
(***************************************************************************)
\* the last element of a sequence that is not empty
Last(seq) == seq[Len(seq)]

\* the raw text the stream has been fed after its first n chunks
FedAfter(n) == Concat(SubSeq(feds, 1, n))

\* whether text ends with part
EndsWith(text, part) ==
  /\ Len(part) <= Len(text)
  /\ SubSeq(text, Len(text) - Len(part) + 1, Len(text)) = part

\* the starts of the objects and arrays of objects that text holds
MatchStarts(text) ==
  {i \in 1..Len(text) :
     MatchEnd(text, i, "object") # 0 \/ MatchEnd(text, i, "array") # 0}

\* the index after the object or array that starts at i
MatchEndAny(text, i) ==
  IF MatchEnd(text, i, "object") # 0 THEN MatchEnd(text, i, "object")
  ELSE MatchEnd(text, i, "array")

\* C16: while the text fed so far is no longer than the buffer ceiling, the
\* text the last processChunk call returned is the text that processChunk
\* returns for the whole text fed as one chunk to a new detector; an object
\* that the last chunk completes is replaced in it by the marker.
C16_FragmentsAsWhole ==
  (feds # <<>> /\ Len(Concat(feds)) <= BufferCeiling)
  => /\ Last(outs) = processChunk(<<>>, Concat(feds)).processed
     /\ \A i \in MatchStarts(Concat(feds)) :
           ~includes(Last(outs),
                     SubSeq(Concat(feds), i,
                            MatchEndAny(Concat(feds), i) - 1))

\* an object fed in three chunks, none of which holds an object, has been
\* replaced by the marker in what the third call returned
C16_Witness ==
  /\ Len(feds) = 3
  /\ \A n \in 1..3 : MatchStarts(feds[n]) = {}
  /\ MatchStarts(Concat(feds)) = {1}
  /\ MatchEndAny(Concat(feds), 1) = Len(Concat(feds)) + 1
  /\ Last(outs) = ContentMarker

\* C17: no call enqueues the raw beginning of an object or array of objects
\* that later chunks complete: where such an object has begun and not ended
\* in the text fed up to a call, what that call enqueues does not end with
\* the part of the object fed so far.
C17_NoRawPartDelivered ==
  \A n \in 1..Len(outs) :
     \A i \in MatchStarts(Concat(feds)) :
        (i <= Len(FedAfter(n)) /\ Len(FedAfter(n)) < MatchEndAny(Concat(feds), i) - 1)
        => ~EndsWith(outs[n], SubSeq(Concat(feds), i, Len(FedAfter(n))))

\* C18: between two processChunk calls the buffer of the detector holds at
\* most 10,000 characters, whatever chunks it has been fed.
C18_BufferBound == Len(buffer) <= BufferCeiling

\* more than 10,000 characters have been fed and the buffer has been cut to
\* its last 1,000
C18_Witness ==
  /\ Len(Concat(feds)) > BufferCeiling
  /\ Len(buffer) = BufferKeep
  /\ EndsWith(Concat(feds), buffer)

\* C19: applySecurityMiddleware called with the messages it returned returns
\* them unchanged
C19_PostProcessorIdempotent == passes >= 2 => secured = messages

\* the indexes, counted from 0, of the "." of message up to index maxChars
DotsUpTo(message, maxChars) ==
  {i \in 0..maxChars : i < Len(message) /\ message[i + 1] = "."}

Greatest(S) == CHOOSE i \in S : \A j \in S : j <= i

\* C20: limitResponseLength returns a message of at most maxChars characters
\* unchanged; of a longer one it returns the part up to the last "." at an
\* index of at most maxChars when that index exceeds 0.75 * maxChars, and
\* the first maxChars characters followed by "..." otherwise
C20_LengthCap ==
  LET message == limited.message
      maxChars == limited.maxChars
      dots == DotsUpTo(message, maxChars)
  IN IF Len(message) <= maxChars THEN limited.result = message
     ELSE IF dots # {} /\ 4 * Greatest(dots) > 3 * maxChars
       THEN limited.result = SubSeq(message, 1, Greatest(dots) + 1)
     ELSE limited.result = SubSeq(message, 1, maxChars) \o <<".", ".", ".">>

\* a message of 2001 characters, its last "." at index 1550, capped to 1551
C20_Witness ==
  /\ limited.maxChars = DefaultMaxChars
  /\ Len(limited.message) = DefaultMaxChars + 1
  /\ Greatest(DotsUpTo(limited.message, DefaultMaxChars))
       = (3 * DefaultMaxChars) \div 4 + 50
  /\ Len(limited.result) = (3 * DefaultMaxChars) \div 4 + 51

\* whether message holds a "." at an index, counted from 0, of lo..hi
DotWithin(message, lo, hi) ==
  \E i \in lo..hi : i < Len(message) /\ message[i + 1] = "."

\* the first maxChars characters of message followed by "..."
HardCut(message, maxChars) == SubSeq(message, 1, maxChars) \o <<".", ".", ".">>

\* C21: with the default maxChars, limitResponseLength returns of every
\* message longer than 2000 characters that holds no "." before index 1500
\* the first 2000 characters followed by "..."
C21_HardCutWithoutEarlyDot ==
  (/\ limited.maxChars = DefaultMaxChars
   /\ Len(limited.message) > DefaultMaxChars
   /\ ~DotWithin(limited.message, 0, (3 * DefaultMaxChars) \div 4 - 1))
  => limited.result = HardCut(limited.message, DefaultMaxChars)

\* C21 (amended): with the default maxChars, limitResponseLength returns of
\* every message longer than 2000 characters that holds no "." at an index
\* from 1501 to 2000 the first 2000 characters followed by "..."
C21_HardCutWithoutLateDot ==
  (/\ limited.maxChars = DefaultMaxChars
   /\ Len(limited.message) > DefaultMaxChars
   /\ ~DotWithin(limited.message, (3 * DefaultMaxChars) \div 4 + 1,
                 DefaultMaxChars))
  => limited.result = HardCut(limited.message, DefaultMaxChars)

\* a message of 2001 characters whose only "." is its first character has
\* been cut to 2003 characters
C21_Witness ==
  /\ limited.maxChars = DefaultMaxChars
  /\ Len(limited.message) = DefaultMaxChars + 1
  /\ limited.message[1] = "."
  /\ ~DotWithin(limited.message, 1, DefaultMaxChars)
  /\ Len(limited.result) = DefaultMaxChars + 3

\* C22: applySecurityMiddleware returns as many messages as it was given, in
\* their order: a message whose role is not assistant as it was, an assistant
\* message with at most its content changed
C22_OnlyAssistantContentChanges ==
  passes >= 1 =>
    /\ Len(secured) = Len(messages)
    /\ \A i \in 1..Len(messages) :
          IF messages[i].role = "assistant"
          THEN secured[i] = [messages[i] EXCEPT !.content = secured[i].content]
          ELSE secured[i] = messages[i]

\* a list of an assistant message whose content was changed and a user
\* message of a content the steps would change has been processed
C22_Witness ==
  /\ passes = 1
  /\ Len(messages) = 2
  /\ messages[1].role = "assistant"
  /\ secured[1].content # messages[1].content
  /\ messages[2].role = "user"
  /\ messages[2].content = Greetings
  /\ secured[2] = messages[2]

\* C23: a chunk on which the filter threw has been enqueued as it is, and
\* the stream is not in the errored state, so that it takes the next chunks
C23_FailOpen ==
  faulted # <<>> => ~errored /\ outs # <<>> /\ outs[Len(outs)] = faulted[1]

\* C24: where every fetchRSSFeed call settles, a section whose isUpdating is
\* set has it cleared later; a search called on a section with a feed URL
\* whose latest update has ended and whose cache is still expired or empty
\* calls fetchRSSFeed; and while a call for a section has not settled its
\* isUpdating is set and no second call for the section starts
C24_NeverWedged ==
  /\ \A s \in Sections :
        sectionCaches[s].isUpdating ~> ~sectionCaches[s].isUpdating
  /\ [][\A t \in Searchers :
          ( /\ pc[t] = "idle" /\ pc'[t] # "idle"
            /\ HasFeedUrl(sec'[t])
            /\ hist[sec'[t]].outcome \in Ended
            /\ \/ needsUpdate(sectionCaches[sec'[t]], now)
               \/ Len(sectionCaches[sec'[t]].items) = 0 )
          => <<t, sec'[t]>> \in fetching' \ fetching]_vars
  /\ [](\A s \in Sections :
          FetchesOf(s) # {} => sectionCaches[s].isUpdating)
  /\ [][\A s \in Sections :
          FetchesOf(s) # {} => FetchesOf(s)' \subseteq FetchesOf(s)]_vars

\* a refresh of blog failed, and the search called after it has a
\* fetchRSSFeed call of its own in flight
C24_Witness ==
  \E t \in Searchers :
     /\ hist["blog"].outcome = "running"
     /\ <<t, "blog">> \in fetching
     /\ \E p \in Preloaders : pc[p] = "done"
     /\ Len(sectionCaches["blog"].items) = 0

\* C25: in every reachable state the isUpdating flag of a section is set
\* exactly when one call of fetchRSSFeed for the section is in flight; so
\* a call of updateCache returned by the guard leaves the flag of the
\* update in flight set
C25_FlagIffInFlight ==
  \A s \in Sections :
     sectionCaches[s].isUpdating <=> Cardinality(FetchesOf(s)) = 1

\* a searcher's call of updateCache was returned by the guard while the
\* fetch of another task for the same section is still in flight
C25_Witness ==
  \E t \in Searchers :
     /\ nskip[t] > 0
     /\ nfetch[t] = 0
     /\ \E p \in Preloaders : <<p, sec[t]>> \in fetching
     /\ sectionCaches[sec[t]].isUpdating

\* the items of section s as its latest update leaves them to a scan: the
\* items held before it while its fetch is in flight, every item with a guid
\* of the feed once it has succeeded
CompleteItems(s) ==
  IF hist[s].outcome = "running" THEN hist[s].before.items
  ELSE setEach(<<>>, hist[s].feed)

\* C26: a scan never sees the items of a section between clear() and the
\* end of the repopulation: what a search scans is the complete set held
\* before the update in flight, or the complete set of the feed of the
\* update that succeeded
C26_ScanSeesCompleteSet ==
  /\ [](\A s \in Sections :
          hist[s].outcome \in {"running", "success"}
          => sectionCaches[s].items = CompleteItems(s))
  /\ [][\A t \in Searchers :
          ( /\ pc'[t] = "done" /\ pc[t] # "done"
            /\ hist[sec'[t]].outcome \in {"running", "success"} )
          => results'[t] = searchItems(CompleteItems(sec'[t]), query'[t])]_vars

\* a search has scanned the items held before an update whose fetch is
\* still in flight, and found some
C26_Witness ==
  \E t \in Searchers :
     /\ pc[t] = "done"
     /\ results[t] # <<>>
     /\ hist[sec[t]].outcome = "running"
     /\ FetchesOf(sec[t]) # {}

\* C27: a search called on a section that has a feed URL and no update in
\* flight calls fetchRSSFeed whenever the section holds no item, even when
\* lastUpdate is less than 30 minutes old, and whenever lastUpdate is more
\* than 30 minutes old, even when the section holds items; so does the
\* second check of a search that finds the section empty
C27_EmptyOrExpiredFetches ==
  [][\A t \in Searchers :
       LET s == sec'[t]
       IN ( /\ \/ pc[t] = "idle" /\ pc'[t] # "idle"
               \/ pc[t] = "ret1" /\ pc'[t] # "ret1"
            /\ HasFeedUrl(s)
            /\ ~sectionCaches[s].isUpdating
            /\ \/ Len(sectionCaches[s].items) = 0
               \/ /\ pc[t] = "idle"
                  /\ now - sectionCaches[s].lastUpdate > 30 * 60 * 1000 )
          => /\ <<t, s>> \in fetching' \ fetching
             /\ nfetch'[t] = nfetch[t] + 1]_vars

\* a search called on an empty section updated less than 30 minutes before
\* awaits the fetchRSSFeed it called
C27_Witness ==
  \E t \in Searchers :
     /\ pc[t] = "await2"
     /\ nfetch[t] = 1
     /\ nskip[t] = 0
     /\ <<t, sec[t]>> \in fetching
     /\ hist[sec[t]].before.lastUpdate > 0
     /\ hist[sec[t]].before.items = <<>>
     /\ now - hist[sec[t]].before.lastUpdate < CACHE_EXPIRATION

\* C28: no section ever holds an item without a guid; and the update that
\* succeeds with a feed whose items all lack a guid leaves the section
\* empty and sets its lastUpdate to the time of the update
C28_NoItemWithoutGuid ==
  /\ [](\A s \in Sections :
          \A i \in 1..Len(sectionCaches[s].items) :
             sectionCaches[s].items[i].guid # "")
  /\ [][\A s \in Sections :
          ( /\ hist[s].outcome = "running"
            /\ hist'[s].outcome = "success"
            /\ \A j \in 1..Len(hist'[s].feed) : hist'[s].feed[j].guid = "" )
          => /\ sectionCaches'[s].items = <<>>
             /\ sectionCaches'[s].lastUpdate = now
             /\ sectionCaches'[s].lastUpdate >= sectionCaches[s].lastUpdate]_vars

\* blog held items, and a later update whose feed is one item without guid
\* has left it empty with lastUpdate at the time of that update
C28_Witness ==
  /\ hist["blog"].outcome = "success"
  /\ hist["blog"].feed = <<ItemN>>
  /\ hist["blog"].dropped
  /\ sectionCaches["blog"].items = <<>>
  /\ sectionCaches["blog"].lastUpdate = now
  /\ now > StartNow

\* C29: updateCache called on a section without feed URL never calls
\* fetchRSSFeed, leaves the items and the lastUpdate of the section as they
\* were, throws nothing (the search goes on after it) and leaves
\* isUpdating false
C29_NoFeedUrlNoFetch ==
  /\ [](\A s \in Sections :
          s \notin DOMAIN rssFeedURLs
          => FetchesOf(s) = {} /\ ~sectionCaches[s].isUpdating)
  /\ [][\A t \in Searchers :
          LET s == sec'[t]
          IN ( /\ pc[t] \in {"idle", "ret1"}
               /\ pc'[t] # pc[t]
               /\ s \notin DOMAIN rssFeedURLs )
             => /\ pc'[t] = (IF pc[t] = "idle" THEN "ret1" ELSE "ret2")
                /\ hist'[s].outcome = "nourl"
                /\ fetching' = fetching
                /\ nfetch'[t] = nfetch[t]
                /\ sectionCaches'[s].items = sectionCaches[s].items
                /\ sectionCaches'[s].lastUpdate = sectionCaches[s].lastUpdate
                /\ ~sectionCaches'[s].isUpdating]_vars

\* a search of tools, a section without feed URL, has returned from both
\* its calls of updateCache without a fetch
C29_Witness ==
  \E t \in Searchers :
     /\ sec[t] = "tools"
     /\ pc[t] = "ret2"
     /\ nfetch[t] = 0
     /\ nskip[t] = 0
     /\ hist["tools"].outcome = "nourl"
     /\ sectionCaches["tools"] = initializeCache

\* C30: a processChunk call whose buffer with the chunk appended is longer
\* than 10,000 characters leaves as buffer exactly its last 1,000
\* characters, which are the last 1,000 of the text fed so far; a call
\* whose buffer with the chunk appended is no longer than 10,000 characters
\* leaves all of it
C30_CutKeepsLastThousand ==
  [][Len(feds') = Len(feds) + 1
     => IF Len(buffer \o Last(feds')) > 10000
        THEN /\ Len(buffer') = 1000
             /\ EndsWith(buffer \o Last(feds'), buffer')
             /\ EndsWith(Concat(feds'), buffer')
        ELSE buffer' = buffer \o Last(feds')]_vars

\* a buffer cut to the last 1,000 characters of a chunk longer than 10,000
\* has had a chunk appended and is kept whole
C30_Witness ==
  /\ Len(feds) = 3
  /\ Len(feds[1]) > BufferCeiling
  /\ Len(feds[2]) + Len(feds[3]) < BufferKeep
  /\ buffer = SubSeq(feds[1], Len(feds[1]) - BufferKeep + 1, Len(feds[1]))
                 \o feds[2] \o feds[3]

\* C31: each processChunk call returns the buffer it held followed by the
\* new chunk, with the patterns replaced, and not the new chunk alone; where
\* no pattern matches in the buffer followed by the chunk, it returns
\* exactly that text
C31_EmitsWholeBuffer ==
  [][Len(feds') = Len(feds) + 1
     => \A whole \in {buffer \o Last(feds')} :
           /\ Last(outs') = redact(whole)
           /\ MatchStarts(whole) = {} => Last(outs') = whole]_vars

\* the second call of a stream has returned the first chunk followed by
\* the second, in which no pattern matches
C31_Witness ==
  /\ Len(feds) = 2
  /\ feds[1] # <<>>
  /\ MatchStarts(feds[1] \o feds[2]) = {}
  /\ outs[2] = feds[1] \o feds[2]
  /\ outs[2] # feds[2]

\* what a stream alone, whose detector holds buf, enqueues when fed chunks
RECURSIVE Alone(_, _)
Alone(buf, chunks) ==
  IF chunks = <<>> THEN <<>>
  ELSE <<processChunk(buf, Head(chunks)).processed>>
         \o Alone(processChunk(buf, Head(chunks)).buffer, Tail(chunks))

\* C32: of two streams whose transform calls are interleaved in any order,
\* each has enqueued what a stream alone enqueues when fed the chunks this
\* stream was fed: nothing fed to the other stream shows in it
C32_StreamsApart == \A k \in Streams : outOf[k] = Alone(<<>>, fedTo[k])

\* stream a has been fed an object in two chunks and has replaced it, while
\* stream b has been fed the beginning of an object and plain text
C32_Witness ==
  /\ Len(fedTo["a"]) = 2
  /\ Last(outOf["a"]) = ContentMarker
  /\ fedTo["a"][1] # ContentMarker
  /\ Len(fedTo["b"]) = 2
  /\ fedTo["b"][1] = fedTo["a"][1]
  /\ Last(outOf["b"]) = fedTo["b"][1] \o fedTo["b"][2]

\* the indexes of the spaces of text
SpacesOf(text) == {i \in 1..Len(text) : text[i] = " "}

\* the first five words of text, words being what single spaces separate
FiveWords(text) ==
  IF Cardinality(SpacesOf(text)) < 5 THEN text
  ELSE SubSeq(text, 1,
              (CHOOSE i \in SpacesOf(text) :
                  Cardinality({j \in SpacesOf(text) : j < i}) = 4) - 1)

\* whether paragraph p, trimmed, has fewer than 15 characters
IsShort(p) == Len(trim(p)) < 15

\* the signature of paragraph p
SignatureOf(p) == FiveWords(toLowerCase(trim(p)))

\* the paragraphs of ps at the indexes K, in their order
KeptAt(ps, K) ==
  [k \in 1..Cardinality(K) |->
     ps[CHOOSE i \in K : Cardinality({j \in K : j <= i}) = k]]

\* whether K keeps every short paragraph of ps, and a longer one exactly
\* when no longer paragraph kept before it has its signature
KeepsByRule(ps, K) ==
  \A i \in 1..Len(ps) :
     i \in K <=>
       \/ IsShort(ps[i])
       \/ \A j \in K :
             (j < i /\ ~IsShort(ps[j]))
             => SignatureOf(ps[j]) # SignatureOf(ps[i])

\* C33: removeDuplicateContent returns a message of fewer than 100
\* characters as it is; of a longer one it returns, with an empty line
\* between them, the paragraphs kept by the rule: every paragraph of fewer
\* than 15 characters, and a longer paragraph exactly when no longer
\* paragraph kept before it begins with the same five words
C33_DuplicateParagraphs ==
  deduped # NoDedup
  => IF Len(deduped.message) < 100 THEN deduped.result = deduped.message
     ELSE \A ps \in {splitBy(deduped.message, 1, "paragraphs")} :
             \E K \in SUBSET (1..Len(ps)) :
                /\ KeepsByRule(ps, K)
                /\ deduped.result = join(KeptAt(ps, K), <<"\n", "\n">>)

\* of a short paragraph, a longer one that begins with the same five words
\* and that longer one again, the first two have been kept
C33_Witness ==
  /\ deduped.message =
       join(<<ParagraphS, ParagraphC, ParagraphC>>, <<"\n", "\n">>)
  /\ Len(deduped.message) >= 100
  /\ deduped.result = join(<<ParagraphS, ParagraphC>>, <<"\n", "\n">>)

\* C34: one call of searchInCache calls fetchRSSFeed at most twice, and a
\* second time only at its second check, on a section that holds no item
\* after an update that failed or stored a feed without any item with a guid
C34_AtMostTwoFetches ==
  /\ [](\A t \in Searchers : nfetch[t] <= 2)
  /\ [][\A t \in Searchers :
          nfetch'[t] = nfetch[t] + 1 /\ nfetch[t] >= 1
          => /\ nfetch[t] = 1
             /\ pc[t] = "ret1"
             /\ sectionCaches[sec[t]].items = <<>>
             /\ \/ hist[sec[t]].outcome = "failure"
                \/ /\ hist[sec[t]].outcome = "success"
                   /\ \A j \in 1..Len(hist[sec[t]].feed) :
                         hist[sec[t]].feed[j].guid = ""]_vars

\* a search whose first fetch failed on an empty section awaits its second
C34_Witness ==
  \E t \in Searchers :
     /\ nfetch[t] = 2
     /\ nfail[t] = 1
     /\ pc[t] = "await2"
     /\ <<t, sec[t]>> \in fetching
     /\ hist[sec[t]].before.items = <<>>

\* C35: an update of one section, as it begins and as it ends by success or
\* by failure, leaves the items, the lastUpdate and the isUpdating of every
\* other section as they were, also while the updates that preloadCaches
\* began for several sections are in flight
C35_OtherSectionsUntouched ==
  /\ [][\A t \in Tasks, s \in Sections :
          (<<t, s>> \in fetching /\ <<t, s>> \notin fetching')
          => \A other \in Sections \ {s} :
                sectionCaches'[other] = sectionCaches[other]]_vars
  /\ [][\A t \in Searchers :
          pc'[t] # pc[t]
          => \A other \in Sections \ {sec'[t]} :
                sectionCaches'[other] = sectionCaches[other]]_vars
  /\ [][\A p \in Preloaders :
          (pc[p] = "idle" /\ pc'[p] = "waiting")
          => \A s \in Sections :
                /\ sectionCaches'[s].items = sectionCaches[s].items
                /\ sectionCaches'[s].lastUpdate = sectionCaches[s].lastUpdate
                /\ sectionCaches'[s].isUpdating # sectionCaches[s].isUpdating
                   => <<p, s>> \in fetching' \ fetching]_vars

\* the update of blog that a preloadCaches call began has stored its feed
\* while the update of news of the same call is in flight, news being as
\* it was
C35_Witness ==
  \E p \in Preloaders :
     /\ <<p, "news">> \in fetching
     /\ <<p, "blog">> \notin fetching
     /\ pc[p] = "waiting"
     /\ hist["blog"].outcome = "success"
     /\ Len(sectionCaches["blog"].items) > 0
     /\ sectionCaches["news"] = [initializeCache EXCEPT !.isUpdating = TRUE]

\* the guids, other than the empty one, of the items of feed
GuidsOf(feed) == {feed[j].guid : j \in 1..Len(feed)} \ {""}

\* C36: after an update that succeeded the section holds, for each guid of
\* the feed, exactly one item, which is the last item of the feed with that
\* guid, and holds no more items than the feed has guids
C36_LastOfSameGuid ==
  \A s \in Sections :
     hist[s].outcome = "success"
     => /\ \A g \in GuidsOf(hist[s].feed) :
             /\ Cardinality({i \in 1..Len(sectionCaches[s].items) :
                                sectionCaches[s].items[i].guid = g}) = 1
             /\ \E i \in 1..Len(sectionCaches[s].items) :
                   \E j \in 1..Len(hist[s].feed) :
                      /\ sectionCaches[s].items[i] = hist[s].feed[j]
                      /\ hist[s].feed[j].guid = g
                      /\ \A k \in (j + 1)..Len(hist[s].feed) :
                            hist[s].feed[k].guid # g
        /\ Len(sectionCaches[s].items) <= Cardinality(GuidsOf(hist[s].feed))

\* a feed of three items, the first and the last with the same guid, has
\* been stored as two items, the last of the feed among them
C36_Witness ==
  /\ hist["blog"].outcome = "success"
  /\ Len(hist["blog"].feed) = 3
  /\ hist["blog"].feed[1].guid = hist["blog"].feed[3].guid
  /\ hist["blog"].feed[1] # hist["blog"].feed[3]
  /\ Len(sectionCaches["blog"].items) = 2
  /\ sectionCaches["blog"].items[1] = hist["blog"].feed[3]

\* whether part is the first Len(part) characters of text
IsPrefix(part, text) ==
  Len(part) <= Len(text) /\ SubSeq(text, 1, Len(part)) = part

\* C37: what limitResponseLength returns for a maxChars of 0 or more has at
\* most maxChars + 3 characters, and is the message, or a prefix of it, or
\* its first maxChars characters followed by "..."
C37_CapBound ==
  /\ Len(limited.result) <= limited.maxChars + 3
  /\ \/ limited.result = limited.message
     \/ IsPrefix(limited.result, limited.message)
     \/ /\ Len(limited.message) >= limited.maxChars
        /\ Len(limited.result) = limited.maxChars + 3
        /\ IsPrefix(SubSeq(limited.result, 1, limited.maxChars),
                    limited.message)
        /\ SubSeq(limited.result, limited.maxChars + 1,
                  limited.maxChars + 3) = <<".", ".", ".">>

\* a message with a "." too near its start for the cut has been cut at
\* maxChars and is maxChars + 3 characters long
C37_Witness ==
  /\ limited.maxChars > 0
  /\ limited.maxChars < DefaultMaxChars
  /\ Len(limited.message) > limited.maxChars
  /\ DotWithin(limited.message, 0, limited.maxChars)
  /\ Len(limited.result) = limited.maxChars + 3
  /\ ~IsPrefix(limited.result, limited.message)

=============================================================================
